---- MODULE Spec2Model ----
(***************************************************************************)
(* Model of the experiment execution core of the skill-evals runner:       *)
(* runExperiment / runEval (src/src/runner.ts), the two execution          *)
(* strategies runSDKEval (runner.ts) and runAgentEval / executeAgent       *)
(* (src/src/agent-runner.ts) and the check runner runEvalTests.            *)
(*                                                                         *)
(* One behaviour of the model is one call of runExperiment.  Every await   *)
(* of the code is a step boundary; what the file system, the model host,   *)
(* the agent process, the vitest process and the progress callback do is   *)
(* chosen by \E in the step that observes it.                              *)
(*                                                                         *)
(* NamingSpec is the loop of runEval reduced to the run ids and workspace  *)
(* paths it builds; CompareSpec applies compareExperiments to two results  *)
(* of runExperiment; FilterSpec applies filterEvals, ExtractSpec           *)
(* parseGeneratedFiles and AgentOutputSpec the 'close' handler of          *)
(* executeAgent to the inputs of a bounded set; CliSpec is main of         *)
(* scripts/run-comparison.ts; WorkspaceSpec follows the files of one       *)
(* trial's workspace up to the start of the check runner; WritingSpec is   *)
(* the path of a file that writeGeneratedFiles writes; TsxExtractSpec      *)
(* applies parseGeneratedFiles to responses that hold a tsx fence.         *)
(***************************************************************************)
EXTENDS Integers, Sequences, FiniteSets, TLC

\* ------------------------------------------------------------------ bounds
MaxRuns == 2
MaxEvals == 2
MaxTrials == 2
MaxFiles == 1
TimeoutSecs == 1

\* Grace period between SIGTERM and the SIGKILL timer, in seconds.
GraceSecs == 5

\* The trial clock stops one second after the SIGKILL timer is due.
MaxElapsed == TimeoutSecs + GraceSecs + 1

\* ----------------------------------------------------------- value domains
\* JavaScript undefined for an optional string field.
Undefined == "undefined"

\* Exit code null (process ended by a signal).
NullCode == -1

\* Optional Usage: <<>> is undefined, <<u>> is the Usage object u.
NoUsage == <<>>

UsageValues == { [inputTokens |-> 0, outputTokens |-> 0],
                 [inputTokens |-> 1, outputTokens |-> 2] }

OptUsageValues == {NoUsage} \cup { <<u>> : u \in UsageValues }

\* What the vitest process printed: nothing parseable, a malformed report,
\* or a JSON report; an absent field of the report is Undefined / -1.
Reports ==
  { [kind |-> "none", success |-> Undefined, numPassedTests |-> -1, numTotalTests |-> -1],
    [kind |-> "bad",  success |-> Undefined, numPassedTests |-> -1, numTotalTests |-> -1],
    [kind |-> "json", success |-> Undefined, numPassedTests |-> -1, numTotalTests |-> -1],
    [kind |-> "json", success |-> "true",    numPassedTests |-> 1,  numTotalTests |-> 1],
    [kind |-> "json", success |-> "false",   numPassedTests |-> 0,  numTotalTests |-> 1] }

\* Exit codes of the vitest process.
ExitCodes == {0, 1}

\* stdout + stderr of the vitest process.
Outputs == {"", "vitest output"}

\* -------------------------------------------------------------- rationals
RECURSIVE Gcd(_, _)
Gcd(a, b) == IF b = 0 THEN a ELSE Gcd(b, a % b)

\* The IEEE quotient n / d of two small naturals, as a reduced fraction;
\* 0 / 0 is NaN.
Quot(n, d) ==
  IF d = 0
    THEN (IF n = 0 THEN <<"NaN">> ELSE <<"Infinity">>)
    ELSE <<n \div Gcd(n, d), d \div Gcd(n, d)>>

RECURSIVE SumOver(_, _)
SumOver(s, field) ==
  IF s = <<>> THEN 0 ELSE s[1][field] + SumOver(Tail(s), field)

\* runs.filter((r) => r.passed).length
RECURSIVE CountPassed(_)
CountPassed(s) ==
  IF s = <<>> THEN 0
  ELSE (IF s[1].passed THEN 1 ELSE 0) + CountPassed(Tail(s))

\* ------------------------------------------------- results built by the code
\* The RunResult of the catch block of runEval.
CatchResult(i, message) ==
  [runNumber |-> i, passed |-> FALSE, testsPassed |-> 0, testsTotal |-> 1,
   error |-> message, generatedFiles |-> 0, usage |-> NoUsage]

\* runSDKEval when no file was written.
SDKNoFilesResult(i, usage) ==
  [runNumber |-> i, passed |-> FALSE, testsPassed |-> 0, testsTotal |-> 1,
   error |-> "No files were generated by the agent", generatedFiles |-> 0,
   usage |-> <<usage>>]

\* runSDKEval after the check run.
SDKTestedResult(i, testResult, nFiles, usage) ==
  [runNumber |-> i, passed |-> testResult.passed,
   testsPassed |-> testResult.testsPassed, testsTotal |-> testResult.testsTotal,
   error |-> IF testResult.passed THEN Undefined ELSE testResult.output,
   generatedFiles |-> nFiles, usage |-> <<usage>>]

\* `Agent exited with code ${exitCode}`
ExitCodeError(exitCode) ==
  CASE exitCode = 0 -> "Agent exited with code 0"
    [] exitCode = 1 -> "Agent exited with code 1"
    [] OTHER -> "Agent exited with code ?"

\* executeAgent, the 'close' handler: the AgentExecutionResult.
CloseResult(timedOut, code, usage) ==
  IF timedOut
    THEN [exitCode |-> IF code = NullCode THEN 1 ELSE code,
          success |-> FALSE, usage |-> usage, timedOut |-> TRUE]
    ELSE [exitCode |-> IF code = NullCode THEN 0 ELSE code,
          success |-> (code = 0), usage |-> usage, timedOut |-> FALSE]

\* executeAgent, the 'error' handler.
ErrorResult(timedOut) ==
  [exitCode |-> 1, success |-> FALSE, usage |-> NoUsage, timedOut |-> timedOut]

\* A variant that reports no files when the agent failed.
AgentPartialResult_DropsFiles(i, exec, nFiles) ==
  [runNumber |-> i, passed |-> FALSE, testsPassed |-> 0, testsTotal |-> 0,
   error |-> IF exec.success THEN Undefined ELSE ExitCodeError(exec.exitCode),
   generatedFiles |-> IF exec.success THEN nFiles ELSE 0, usage |-> exec.usage]

\* runAgentEval, the partial result returned after the agent ended.
AgentPartialResult(i, exec, nFiles) ==
  [runNumber |-> i, passed |-> FALSE, testsPassed |-> 0, testsTotal |-> 0,
   error |-> IF exec.success THEN Undefined ELSE ExitCodeError(exec.exitCode),
   generatedFiles |-> nFiles, usage |-> exec.usage]

\* runAgentEval, the catch block.
AgentCatchResult(i, message) ==
  [runNumber |-> i, passed |-> FALSE, testsPassed |-> 0, testsTotal |-> 0,
   error |-> message, generatedFiles |-> 0, usage |-> NoUsage]

\* runEval, agent mode, files present: the check outcome overrides the
\* partial result.
AgentTestedResult(agentResult, testResult) ==
  [agentResult EXCEPT
     !.passed = testResult.passed,
     !.testsPassed = testResult.testsPassed,
     !.testsTotal = testResult.testsTotal,
     !.error = IF testResult.passed THEN agentResult.error ELSE testResult.output]

\* runEval, agent mode, no files.
AgentUntestedResult(agentResult) ==
  [agentResult EXCEPT
     !.error = IF agentResult.error = Undefined
                 THEN "No files were generated by the agent"
                 ELSE agentResult.error]

\* A variant whose fallback ignores the exit code.
TestResultOnClose_NoFallback(code, report, out) ==
  IF report.kind = "json"
    THEN [passed |-> IF report.success = Undefined THEN code = 0
                     ELSE report.success = "true",
          testsPassed |-> IF report.numPassedTests = -1 THEN 0
                          ELSE report.numPassedTests,
          testsTotal |-> IF report.numTotalTests = -1 THEN 0
                         ELSE report.numTotalTests,
          output |-> out]
    ELSE [passed |-> FALSE,
          testsPassed |-> 0,
          testsTotal |-> 1,
          output |-> out]

\* runEvalTests, the 'close' handler.
TestResultOnClose(code, report, out) ==
  IF report.kind = "json"
    THEN [passed |-> IF report.success = Undefined THEN code = 0
                     ELSE report.success = "true",
          testsPassed |-> IF report.numPassedTests = -1 THEN 0
                          ELSE report.numPassedTests,
          testsTotal |-> IF report.numTotalTests = -1 THEN 0
                         ELSE report.numTotalTests,
          output |-> out]
    ELSE [passed |-> (code = 0),
          testsPassed |-> IF code = 0 THEN 1 ELSE 0,
          testsTotal |-> 1,
          output |-> out]

\* runEvalTests, the 'error' handler and the copy-failure handler.
TestResultOnFailure(message) ==
  [passed |-> FALSE, testsPassed |-> 0, testsTotal |-> 1, output |-> message]

\* A variant that always reports the aggregate.
UsageIfAny_Always(u) == <<u>>

\* hasUsage ? totalUsage : undefined
UsageIfAny(u) ==
  IF u.inputTokens > 0 \/ u.outputTokens > 0 THEN <<u>> ELSE NoUsage

AddUsage(total, opt) ==
  IF opt = NoUsage THEN total
  ELSE [inputTokens |-> total.inputTokens + opt[1].inputTokens,
        outputTokens |-> total.outputTokens + opt[1].outputTokens]

\* A variant that divides by the length of the trial list.
EvalResultOf_LenDivisor(evalName, runList, configRuns, usage) ==
  [evalName |-> evalName,
   totalRuns |-> configRuns,
   passedRuns |-> CountPassed(runList),
   passRate |-> Quot(CountPassed(runList), Len(runList)),
   runs |-> runList,
   totalUsage |-> UsageIfAny(usage)]

\* runEval, the EvalResult returned after the loop.  The trial list is kept
\* by its length and its run numbers.
EvalResultOf(evalName, runList, configRuns, usage) ==
  [evalName |-> evalName,
   totalRuns |-> configRuns,
   passedRuns |-> CountPassed(runList),
   passRate |-> Quot(CountPassed(runList), configRuns),
   runs |-> runList,
   totalUsage |-> UsageIfAny(usage)]

\* A variant without the guard against an empty experiment.
OverallPassRate_NoGuard(results) ==
  Quot(SumOver(results, "passedRuns"), SumOver(results, "totalRuns"))

\* runExperiment: totalRuns > 0 ? totalPassed / totalRuns : 0
OverallPassRate(results) ==
  IF SumOver(results, "totalRuns") > 0
    THEN Quot(SumOver(results, "passedRuns"), SumOver(results, "totalRuns"))
    ELSE <<0, 1>>

\* ------------------------------------------------------------------- state
VARIABLES
  config,            \* ExperimentConfig: runs, executionMode, agent (present?)
  options,           \* RunnerOptions: debug
  numEvals,          \* evals.length after discoverEvals and filterEvals
  onProgress,        \* how the caller's progress callback behaves
  pc,                \* where runExperiment / runEval is suspended
  evalIdx,           \* position of evalDef in evals (1-based)
  i,                 \* loop variable of runEval
  runs,              \* runs: the RunResults pushed so far for this eval
  reported,          \* sum of the usage fields of the RunResults in runs
  reportedByEval,    \* that sum for every eval that has returned
  totalUsage,        \* totalUsage accumulated by runEval
  evalResults,       \* evalResults of runExperiment
  experimentResult,  \* <<>> until runExperiment returns, then <<result>>
  workspaces,        \* workspace directories that exist on disk
  workspaceDir,      \* workspaceDir of the current iteration
  partial,           \* what the strategy left for the check step
  recorded,          \* the full RunResults pushed in the current iteration
  steps,             \* how often each step ran in the current iteration
  trace,             \* the phases the current trial went through
  agent,             \* the agent child process and the timers of executeAgent
  api,               \* the model call and the timer of callClaudeAPI
  vitest,            \* the check-runner child process
  pending,           \* an exception is propagating out of the catch block
  thrown,            \* message of the error runExperiment rejected with
  naming,            \* the run ids and workspace paths runEval's loop builds
  comparison,        \* the arguments and the result of compareExperiments
  filtering,         \* the arguments and the result of filterEvals
  extraction,        \* the response and the result of parseGeneratedFiles
  cli,               \* the command line run of scripts/run-comparison.ts
  agentOutput,       \* what an agent process left and the RunResult made of it
  workspace,         \* the files of one trial's workspace directory
  writing            \* the path of one file written from extracted output

\* The state of a call of runExperiment.
runVars ==
  <<config, options, numEvals, onProgress, pc, evalIdx, i, runs, reported, totalUsage, evalResults,
    experimentResult, workspaces, workspaceDir, partial, recorded, steps,
    trace, agent, api, vitest, pending, thrown, reportedByEval>>

\* The state of the views on single functions and on the command line.
sideVars ==
  <<naming, comparison, filtering, extraction, cli, agentOutput, workspace,
    writing>>

vars == <<runVars, sideVars>>

ZeroUsage == [inputTokens |-> 0, outputTokens |-> 0]

\* The progress callback returns, or throws on a result of one kind.
Callbacks == {"returns", "throwsIfPassed", "throwsIfFailed"}

NoSteps == [mkdir |-> 0, api |-> 0, agent |-> 0, checks |-> 0, rm |-> 0,
            rmFailed |-> FALSE]

AgentIdle ==
  [proc |-> "none", elapsed |-> 0, timeoutId |-> "idle", killTimer |-> "idle",
   killDeadline |-> 0, timedOut |-> FALSE, killed |-> FALSE,
   sigterm |-> FALSE, sigkill |-> FALSE, code |-> 0, listed |-> FALSE,
   files |-> 0]

ApiIdle == [call |-> "none", timeoutId |-> "idle", aborted |-> FALSE, files |-> 0]

\* What the check step decides: passed, testsPassed, testsTotal.
Verdict(res) == <<res.passed, res.testsPassed, res.testsTotal>>

VitestIdle == [proc |-> "none", code |-> 0, kind |-> "none",
               verdict |-> <<FALSE, 0, 0>>]

NoPartial == CatchResult(0, Undefined)

NoDir == <<0, 0>>

\* The entry of the trial list, reduced to the fields the aggregation reads.
Row(res) == [runNumber |-> res.runNumber, passed |-> res.passed]

IsAgentMode == config.executionMode = "agent"

\* A view that is not in use.
NamingIdle == <<>>

ComparisonIdle == <<>>

FilteringIdle == <<>>

ExtractionIdle == <<>>

CliIdle == <<>>

AgentOutputIdle == <<>>

WorkspaceIdle == <<>>

WritingIdle == <<>>

\* Every view but the one named is not in use.
IdleExcept(view) ==
  /\ IF view = "naming" THEN TRUE ELSE naming = NamingIdle
  /\ IF view = "comparison" THEN TRUE ELSE comparison = ComparisonIdle
  /\ IF view = "filtering" THEN TRUE ELSE filtering = FilteringIdle
  /\ IF view = "extraction" THEN TRUE ELSE extraction = ExtractionIdle
  /\ IF view = "cli" THEN TRUE ELSE cli = CliIdle
  /\ IF view = "agentOutput" THEN TRUE ELSE agentOutput = AgentOutputIdle
  /\ IF view = "workspace" THEN TRUE ELSE workspace = WorkspaceIdle
  /\ IF view = "writing" THEN TRUE ELSE writing = WritingIdle

\* A step of the view named leaves the others alone.
OnlyView(view) ==
  /\ IF view = "naming" THEN TRUE ELSE UNCHANGED naming
  /\ IF view = "comparison" THEN TRUE ELSE UNCHANGED comparison
  /\ IF view = "filtering" THEN TRUE ELSE UNCHANGED filtering
  /\ IF view = "extraction" THEN TRUE ELSE UNCHANGED extraction
  /\ IF view = "cli" THEN TRUE ELSE UNCHANGED cli
  /\ IF view = "agentOutput" THEN TRUE ELSE UNCHANGED agentOutput
  /\ IF view = "workspace" THEN TRUE ELSE UNCHANGED workspace
  /\ IF view = "writing" THEN TRUE ELSE UNCHANGED writing

\* runExperiment has not been entered.
NotStarted ==
  /\ pc = "start"
  /\ evalIdx = 0
  /\ i = 0
  /\ runs = <<>>
  /\ reported = ZeroUsage
  /\ reportedByEval = <<>>
  /\ totalUsage = ZeroUsage
  /\ evalResults = <<>>
  /\ experimentResult = <<>>
  /\ workspaces = {}
  /\ workspaceDir = NoDir
  /\ partial = NoPartial
  /\ recorded = <<>>
  /\ steps = NoSteps
  /\ trace = <<>>
  /\ agent = AgentIdle
  /\ api = ApiIdle
  /\ vitest = VitestIdle
  /\ pending = FALSE
  /\ thrown = Undefined

\* No call of runExperiment is part of the view.
RunParked ==
  /\ config = [runs |-> 0, executionMode |-> "sdk", agent |-> FALSE]
  /\ options = [debug |-> FALSE]
  /\ numEvals = 0
  /\ onProgress = "returns"
  /\ NotStarted

Init ==
  /\ config \in [runs : 0..MaxRuns, executionMode : {"sdk", "agent"},
                 agent : BOOLEAN]
  /\ options \in [debug : BOOLEAN]
  /\ numEvals \in 0..MaxEvals
  /\ onProgress \in Callbacks
  /\ config.runs * numEvals <= MaxTrials
  /\ NotStarted
  /\ IdleExcept("none")

\* ------------------------------------------------ runEval: try / catch tail
\* onProgress?.(i, config.runs, result) throws: the callback is a function of
\* the result it is handed.
CallbackThrows(res) ==
  CASE onProgress = "returns" -> FALSE
    [] onProgress = "throwsIfPassed" -> res.passed
    [] onProgress = "throwsIfFailed" -> ~res.passed

\* runs.push(result); onProgress?.(i, config.runs, result) at the end of the
\* try block, and the catch block that runs when the callback throws.
Record(res, phases) ==
  LET again == CatchResult(i, "callback error") IN
  /\ trace' = trace \o phases \o
                 (IF CallbackThrows(res) THEN <<"Recorded", "Recorded">>
                  ELSE <<"Recorded">>)
  /\ runs' = IF CallbackThrows(res)
               THEN Append(Append(runs, Row(res)), Row(again))
               ELSE Append(runs, Row(res))
  /\ recorded' = IF CallbackThrows(res) THEN <<res, again>> ELSE <<res>>
  /\ reported' = IF CallbackThrows(res)
                   THEN AddUsage(AddUsage(reported, res.usage), again.usage)
                   ELSE AddUsage(reported, res.usage)
  /\ pending' = (CallbackThrows(res) /\ CallbackThrows(again))
  /\ pc' = "finally"

\* The catch block of runEval entered from a rejected await.
Caught(message) ==
  /\ trace' = Append(trace, "Recorded")
  /\ runs' = Append(runs, Row(CatchResult(i, message)))
  /\ recorded' = <<CatchResult(i, message)>>
  /\ reported' = AddUsage(reported, CatchResult(i, message).usage)
  /\ pending' = CallbackThrows(CatchResult(i, message))
  /\ pc' = "finally"

\* ------------------------------------------------------------ runExperiment
\* A variant without the validation of the agent settings.
SetupError_NoAgentCheck(cfg, nEvals) ==
  IF nEvals = 0
    THEN "No evals found matching the specified patterns"
    ELSE Undefined

\* The two validations of runExperiment: the message it throws, or
\* Undefined when it goes on to the loop over the evals.
SetupError(cfg, nEvals) ==
  IF cfg.executionMode = "agent" /\ ~cfg.agent
    THEN "Agent configuration is required when executionMode is 'agent'"
    ELSE IF nEvals = 0
      THEN "No evals found matching the specified patterns"
      ELSE Undefined

RunExperimentStart ==
  /\ pc = "start"
  /\ IF SetupError(config, numEvals) # Undefined
       THEN /\ pc' = "thrown"
            /\ thrown' = SetupError(config, numEvals)
            /\ UNCHANGED <<evalIdx, i>>
       ELSE /\ pc' = "loop"
            /\ evalIdx' = 1
            /\ i' = 1
            /\ UNCHANGED thrown
  /\ reported' = ZeroUsage
  /\ UNCHANGED <<sideVars, reportedByEval, config, options, numEvals, onProgress, runs, totalUsage, evalResults,
                 experimentResult, workspaces, workspaceDir, partial, recorded,
                 steps, trace, agent, api, vitest, pending>>

\* for (...; i <= config.runs; ...) { runId = ...; await createWorkspace(...)
CreateWorkspace ==
  /\ pc = "loop"
  /\ i <= config.runs
  /\ \E mkdirOk \in BOOLEAN :
       /\ steps' = [NoSteps EXCEPT !.mkdir = 1]
       /\ workspaceDir' = <<evalIdx, i>>
       /\ IF mkdirOk
            THEN /\ workspaces' = workspaces \cup {<<evalIdx, i>>}
                 /\ trace' = <<"Created">>
                 /\ pc' = IF IsAgentMode THEN "agent_prepare" ELSE "sdk_prepare"
                 /\ UNCHANGED thrown
            ELSE /\ trace' = <<>>
                 /\ pc' = "thrown"
                 /\ thrown' = "mkdir failed"
                 /\ UNCHANGED workspaces
  /\ UNCHANGED <<sideVars, reportedByEval, config, options, numEvals, onProgress, evalIdx, i, runs, reported, totalUsage,
                 evalResults, experimentResult, partial, recorded, agent, api,
                 vitest, pending>>

\* -------------------------------------------------- runSDKEval, callClaudeAPI
\* await copyStarterFiles(...); then callClaudeAPI arms its timer and issues
\* the request.  (client is never null here: runExperiment creates it
\* whenever the mode is not agent.)
SDKPrepare ==
  /\ pc = "sdk_prepare"
  /\ \E copyOk \in BOOLEAN :
       IF copyOk
         THEN /\ trace' = Append(trace, "WorkspacePrepared")
              /\ api' = [ApiIdle EXCEPT !.call = "inflight",
                                         !.timeoutId = "armed"]
              /\ steps' = [steps EXCEPT !.api = @ + 1]
              /\ pc' = "sdk_wait"
              /\ UNCHANGED <<runs, reported, recorded, pending>>
         ELSE /\ Caught("copy failed")
              /\ UNCHANGED <<api, steps>>
  /\ UNCHANGED <<sideVars, reportedByEval, config, options, numEvals, onProgress, evalIdx, i, totalUsage,
                 evalResults, experimentResult, workspaces, workspaceDir,
                 partial, agent, vitest, thrown>>

\* setTimeout(() => controller.abort(), timeout * 1000) fires.  The
\* controller's signal is not handed to client.messages.create, so the
\* request stays in flight.
APITimeout ==
  /\ pc = "sdk_wait"
  /\ api.timeoutId = "armed"
  /\ api' = [api EXCEPT !.timeoutId = "fired", !.aborted = TRUE]
  /\ UNCHANGED <<sideVars, reportedByEval, config, options, numEvals, onProgress, pc, evalIdx, i, runs, reported, totalUsage,
                 evalResults, experimentResult, workspaces, workspaceDir,
                 partial, recorded, steps, trace, agent, vitest, pending,
                 thrown>>

\* A variant that never takes the zero-file short cut.
ZeroFiles_Never(nFiles) == FALSE

\* if (writtenFiles.length === 0)
ZeroFiles(nFiles) == nFiles = 0

\* client.messages.create resolves: clearTimeout, parseGeneratedFiles,
\* writeGeneratedFiles, and the zero-file short cut of runSDKEval.
\* nFiles is the size of the mapping parseGeneratedFiles returns.
APIResolve ==
  /\ pc = "sdk_wait"
  /\ api.call = "inflight"
  /\ \E usage \in UsageValues, nFiles \in 0..MaxFiles, writeOk \in BOOLEAN :
       /\ api' = [api EXCEPT !.call = "returned",
                             !.timeoutId = IF @ = "armed" THEN "cleared" ELSE @,
                             !.files = nFiles]
       /\ IF nFiles > 0 /\ ~writeOk
            THEN /\ Caught("write failed")
                 /\ UNCHANGED <<partial, totalUsage>>
            ELSE IF ZeroFiles(nFiles)
              THEN /\ Record(SDKNoFilesResult(i, usage), <<"StrategyExecuted">>)
                   /\ totalUsage' = AddUsage(totalUsage, <<usage>>)
                   /\ UNCHANGED partial
              ELSE /\ partial' = [NoPartial EXCEPT !.runNumber = i,
                                                   !.generatedFiles = nFiles,
                                                   !.usage = <<usage>>]
                   /\ trace' = Append(trace, "StrategyExecuted")
                   /\ pc' = "check_copy"
                   /\ UNCHANGED <<runs, reported, recorded, pending, totalUsage>>
  /\ UNCHANGED <<sideVars, reportedByEval, config, options, numEvals, onProgress, evalIdx, i, evalResults,
                 experimentResult, workspaces, workspaceDir, steps, agent,
                 vitest, thrown>>

\* client.messages.create rejects (API or network error).
APIReject ==
  /\ pc = "sdk_wait"
  /\ api.call = "inflight"
  /\ api' = [api EXCEPT !.call = "rejected",
                        !.timeoutId = IF @ = "armed" THEN "cleared" ELSE @]
  /\ Caught("API error")
  /\ UNCHANGED <<sideVars, reportedByEval, config, options, numEvals, onProgress, evalIdx, i, totalUsage,
                 evalResults, experimentResult, workspaces, workspaceDir,
                 partial, steps, agent, vitest, thrown>>

\* ---------------------------------------------------------------- runEvalTests
\* The code of runEval / runSDKEval that follows `await runEvalTests(...)`.
AfterTests(testResult) ==
  /\ Record(IF IsAgentMode
              THEN AgentTestedResult(partial, testResult)
              ELSE SDKTestedResult(i, testResult, partial.generatedFiles,
                                   partial.usage[1]), <<"ChecksRun">>)
  /\ totalUsage' = AddUsage(totalUsage, partial.usage)

\* Promise.all([cp(evalFile), cp(vitest.config.ts)]) then spawn("npx", ...)
RunEvalTestsStart ==
  /\ pc = "check_copy"
  /\ \E cpOk \in BOOLEAN :
       IF cpOk
         THEN /\ vitest' = [VitestIdle EXCEPT !.proc = "running"]
              /\ steps' = [steps EXCEPT !.checks = @ + 1]
              /\ pc' = "check_wait"
              /\ UNCHANGED <<runs, reported, recorded, pending, trace, totalUsage>>
         ELSE /\ vitest' = [VitestIdle EXCEPT
                            !.proc = "copy_failed",
                            !.verdict = Verdict(TestResultOnFailure(""))]
              /\ AfterTests(TestResultOnFailure("Failed to copy eval file"))
              /\ UNCHANGED steps
  /\ UNCHANGED <<sideVars, reportedByEval, config, options, numEvals, onProgress, evalIdx, i, evalResults,
                 experimentResult, workspaces, workspaceDir, partial, agent,
                 api, thrown>>

\* vitest.on("close", ...)
VitestClose ==
  /\ pc = "check_wait"
  /\ vitest.proc = "running"
  /\ \E code \in ExitCodes, report \in Reports, out \in Outputs :
       /\ vitest' = [proc |-> "closed", code |-> code, kind |-> report.kind,
                     verdict |-> Verdict(TestResultOnClose(code, report, out))]
       /\ AfterTests(TestResultOnClose(code, report, out))
  /\ UNCHANGED <<sideVars, reportedByEval, config, options, numEvals, onProgress, evalIdx, i, evalResults,
                 experimentResult, workspaces, workspaceDir, partial, steps,
                 agent, api, thrown>>

\* vitest.on("error", ...): the process could not be spawned.
VitestError ==
  /\ pc = "check_wait"
  /\ vitest.proc = "running"
  /\ vitest' = [VitestIdle EXCEPT !.proc = "failed",
                                   !.verdict = Verdict(TestResultOnFailure(""))]
  /\ AfterTests(TestResultOnFailure("spawn npx ENOENT"))
  /\ UNCHANGED <<sideVars, reportedByEval, config, options, numEvals, onProgress, evalIdx, i, evalResults,
                 experimentResult, workspaces, workspaceDir, partial, steps,
                 agent, api, thrown>>

\* ------------------------------------------------- runAgentEval, executeAgent
\* The code of runAgentEval and runEval that follows `await executeAgent`:
\* listGeneratedFiles, the partial result, and the branch of runEval on
\* generatedFiles.length.  nFiles is what the starter files and the agent
\* left in the workspace; listOk is whether the glob itself succeeded.
AfterAgent(exec, nFiles, listOk) ==
  IF ~listOk
    THEN /\ Record(AgentUntestedResult(AgentCatchResult(i, "glob failed")),
                   <<>>)
         /\ UNCHANGED <<partial, totalUsage>>
    ELSE IF nFiles > 0
      THEN /\ partial' = AgentPartialResult(i, exec, nFiles)
           /\ trace' = Append(trace, "StrategyExecuted")
           /\ pc' = "check_copy"
           /\ UNCHANGED <<runs, reported, recorded, pending, totalUsage>>
      ELSE /\ partial' = AgentPartialResult(i, exec, nFiles)
           /\ Record(AgentUntestedResult(AgentPartialResult(i, exec, nFiles)), <<"StrategyExecuted">>)
           /\ totalUsage' = AddUsage(totalUsage, exec.usage)

\* copyStarterFiles, copySkillFile, writePromptFile, then executeAgent spawns
\* the agent and arms the timeout.  (config.agent is present: runExperiment
\* checked it.)
AgentPrepare ==
  /\ pc = "agent_prepare"
  /\ \E prepOk \in BOOLEAN :
       IF prepOk
         THEN /\ trace' = Append(trace, "WorkspacePrepared")
              /\ agent' = [AgentIdle EXCEPT !.proc = "running",
                                            !.timeoutId = "armed"]
              /\ steps' = [steps EXCEPT !.agent = @ + 1]
              /\ pc' = "agent_wait"
              /\ UNCHANGED <<runs, reported, recorded, pending>>
         ELSE /\ Record(AgentUntestedResult(AgentCatchResult(i, "copy failed")),
                        <<>>)
              /\ UNCHANGED <<agent, steps>>
  /\ UNCHANGED <<sideVars, reportedByEval, config, options, numEvals, onProgress, evalIdx, i, totalUsage,
                 evalResults, experimentResult, workspaces, workspaceDir,
                 partial, api, vitest, thrown>>

\* One second passes while executeAgent waits; a timer that is due fires
\* before the clock moves on.
Tick ==
  /\ pc = "agent_wait"
  /\ agent.elapsed < MaxElapsed
  /\ ~(agent.timeoutId = "armed" /\ agent.elapsed >= TimeoutSecs)
  /\ ~(agent.killTimer = "armed" /\ agent.elapsed >= agent.killDeadline)
  /\ agent' = [agent EXCEPT !.elapsed = @ + 1]
  /\ UNCHANGED <<sideVars, reportedByEval, config, options, numEvals, onProgress, pc, evalIdx, i, runs, reported, totalUsage,
                 evalResults, experimentResult, workspaces, workspaceDir,
                 partial, recorded, steps, trace, api, vitest, pending, thrown>>

\* The timeout callback: timedOut = true; agent.kill("SIGTERM"); arm the
\* 5 s timer.  kill() delivers the signal to a living process and then sets
\* agent.killed.
AgentTimeout ==
  /\ pc = "agent_wait"
  /\ agent.timeoutId = "armed"
  /\ agent.elapsed >= TimeoutSecs
  /\ agent' = [agent EXCEPT !.timeoutId = "fired",
                            !.timedOut = TRUE,
                            !.sigterm = (agent.proc = "running"),
                            !.killed = (agent.proc = "running"),
                            !.killTimer = "armed",
                            !.killDeadline = agent.elapsed + GraceSecs]
  /\ UNCHANGED <<sideVars, reportedByEval, config, options, numEvals, onProgress, pc, evalIdx, i, runs, reported, totalUsage,
                 evalResults, experimentResult, workspaces, workspaceDir,
                 partial, recorded, steps, trace, api, vitest, pending, thrown>>

\* A variant whose inner timer signals whatever has become of the child.
AgentKillTimer_Unconditional ==
  /\ pc \in {"agent_wait", "check_copy", "check_wait", "finally"}
  /\ agent.killTimer = "armed"
  /\ agent.elapsed >= agent.killDeadline
  /\ agent' = [agent EXCEPT !.killTimer = "fired", !.sigkill = TRUE,
                            !.killed = TRUE]
  /\ UNCHANGED <<sideVars, reportedByEval, config, options, numEvals, onProgress, pc, evalIdx, i, runs, reported, totalUsage,
                 evalResults, experimentResult, workspaces, workspaceDir,
                 partial, recorded, steps, trace, api, vitest, pending, thrown>>

\* The inner timer: if (!agent.killed) agent.kill("SIGKILL").  Nothing
\* clears this timer, so it also fires after executeAgent has resolved,
\* while the trial is being checked or torn down; kill() signals only a
\* child that has not closed.
AgentKillTimer ==
  /\ pc \in {"agent_wait", "check_copy", "check_wait", "finally"}
  /\ agent.killTimer = "armed"
  /\ agent.elapsed >= agent.killDeadline
  /\ agent' = [agent EXCEPT !.killTimer = "fired",
                            !.sigkill = (~agent.killed /\ agent.proc = "running"),
                            !.killed = @ \/ (agent.proc = "running")]
  /\ UNCHANGED <<sideVars, reportedByEval, config, options, numEvals, onProgress, pc, evalIdx, i, runs, reported, totalUsage,
                 evalResults, experimentResult, workspaces, workspaceDir,
                 partial, recorded, steps, trace, api, vitest, pending, thrown>>

\* executeAgent has resolved: clearTimeout(timeoutId); the clock of the wait
\* is no longer read.  The 5 s timer, if armed, stays armed.
Settled(a) ==
  [a EXCEPT !.timeoutId = IF @ = "armed" THEN "cleared" ELSE @,
            !.elapsed = 0,
            !.killDeadline = 0]

\* agent.on("close", ...): the process ended, by itself or by a signal.
AgentClose ==
  /\ pc = "agent_wait"
  /\ agent.proc = "running"
  /\ \E code \in {0, 1} \cup (IF agent.sigterm \/ agent.sigkill
                                THEN {NullCode} ELSE {}),
        usage \in OptUsageValues, nFiles \in 0..MaxFiles,
        listOk \in BOOLEAN :
       /\ agent' = Settled([agent EXCEPT !.proc = "closed", !.code = code,
                                          !.listed = listOk,
                                          !.files = IF listOk THEN nFiles
                                                    ELSE 0])
       /\ AfterAgent(CloseResult(agent.timedOut, code, usage), nFiles, listOk)
  /\ UNCHANGED <<sideVars, reportedByEval, config, options, numEvals, onProgress, evalIdx, i, evalResults,
                 experimentResult, workspaces, workspaceDir, steps, api,
                 vitest, thrown>>

\* agent.on("error", ...): the command could not be spawned.
AgentError ==
  /\ pc = "agent_wait"
  /\ agent.proc = "running"
  /\ agent.elapsed = 0
  /\ \E nFiles \in 0..MaxFiles, listOk \in BOOLEAN :
       /\ agent' = Settled([agent EXCEPT !.proc = "failed",
                                          !.listed = listOk,
                                          !.files = IF listOk THEN nFiles
                                                    ELSE 0])
       /\ AfterAgent(ErrorResult(agent.timedOut), nFiles, listOk)
  /\ UNCHANGED <<sideVars, reportedByEval, config, options, numEvals, onProgress, evalIdx, i, evalResults,
                 experimentResult, workspaces, workspaceDir, steps, api,
                 vitest, thrown>>

\* The timeout callback when agent.kill("SIGTERM") is refused (EPERM: the
\* agent runs under another user): kill() emits 'error' on the child, the
\* 'error' handler resolves executeAgent, kill() returns false and
\* agent.killed stays unset.  The process goes on running.
AgentKillRejected ==
  /\ pc = "agent_wait"
  /\ agent.proc = "running"
  /\ agent.timeoutId = "armed"
  /\ agent.elapsed >= TimeoutSecs
  /\ \E nFiles \in 0..MaxFiles, listOk \in BOOLEAN :
       /\ agent' = Settled([agent EXCEPT !.timeoutId = "fired",
                                          !.timedOut = TRUE,
                                          !.killTimer = "armed",
                                          !.listed = listOk,
                                          !.files = IF listOk THEN nFiles
                                                    ELSE 0])
       /\ AfterAgent(ErrorResult(TRUE), nFiles, listOk)
  /\ UNCHANGED <<sideVars, reportedByEval, config, options, numEvals, onProgress, evalIdx, i, evalResults,
                 experimentResult, workspaces, workspaceDir, steps, api,
                 vitest, thrown>>

\* ------------------------------------------------------- runEval: finally, return
\* A variant that removes the scratch root's placeholder, not the directory
\* it was given.
CleanupWorkspace_WrongDir(dir, rmOk) ==
  /\ workspaces' = IF rmOk THEN workspaces \ {NoDir} ELSE workspaces
  /\ steps' = [steps EXCEPT !.rm = @ + 1, !.rmFailed = ~rmOk]

\* cleanupWorkspace: rm(workspaceDir, {recursive, force}), errors swallowed.
CleanupWorkspace(dir, rmOk) ==
  /\ workspaces' = IF rmOk THEN workspaces \ {dir} ELSE workspaces
  /\ steps' = [steps EXCEPT !.rm = @ + 1, !.rmFailed = ~rmOk]

\* A variant in which a failed removal leaves cleanupWorkspace as an
\* exception.
CleanupRaises_Propagates(rmOk) == ~rmOk

\* cleanupWorkspace: try { await rm(...) } catch { /* ignore */ }
CleanupRaises(rmOk) == FALSE

\* finally { if (!options?.debug) await cleanupWorkspace(workspaceDir) }, then
\* either the pending exception leaves runEval or the loop goes on with i++.
Finally ==
  /\ pc = "finally"
  /\ \E rmOk \in (IF options.debug THEN {TRUE} ELSE BOOLEAN) :
       /\ IF ~options.debug
            THEN CleanupWorkspace(workspaceDir, rmOk)
            ELSE UNCHANGED <<workspaces, steps>>
       /\ IF ~options.debug /\ CleanupRaises(rmOk)
            THEN /\ pc' = "thrown"
                 /\ thrown' = "rm failed"
                 /\ UNCHANGED i
            ELSE IF pending
              THEN /\ pc' = "thrown"
                   /\ thrown' = "callback error"
                   /\ UNCHANGED i
              ELSE /\ pc' = "loop"
                   /\ i' = i + 1
                   /\ UNCHANGED thrown
  /\ recorded' = <<>>
  /\ pending' = FALSE
  /\ partial' = NoPartial
  /\ agent' = AgentIdle
  /\ api' = ApiIdle
  /\ vitest' = VitestIdle
  /\ UNCHANGED <<sideVars, reportedByEval, config, options, numEvals, onProgress, evalIdx, runs, reported, totalUsage,
                 evalResults, experimentResult, workspaceDir, trace>>

\* runExperiment, after the loop over evals.
ExperimentResultOf(results) ==
  [overallPassRate |-> OverallPassRate(results),
   totalUsage |-> UsageIfAny(
     [inputTokens |-> SumOver([k \in 1..Len(results) |->
                         IF results[k].totalUsage = NoUsage THEN ZeroUsage
                         ELSE results[k].totalUsage[1]], "inputTokens"),
      outputTokens |-> SumOver([k \in 1..Len(results) |->
                         IF results[k].totalUsage = NoUsage THEN ZeroUsage
                         ELSE results[k].totalUsage[1]], "outputTokens")]),
   evalResults |-> results]

\* The loop of runEval ends: runEval returns its EvalResult, runExperiment
\* pushes it and goes on with the next eval or returns.
RunEvalReturn ==
  /\ pc = "loop"
  /\ i > config.runs
  /\ evalResults' = Append(evalResults,
                           EvalResultOf(evalIdx, runs, config.runs, totalUsage))
  /\ IF evalIdx < numEvals
       THEN /\ evalIdx' = evalIdx + 1
            /\ i' = 1
            /\ pc' = "loop"
            /\ UNCHANGED experimentResult
       ELSE /\ experimentResult' = <<ExperimentResultOf(evalResults')>>
            /\ pc' = "done"
            /\ UNCHANGED <<evalIdx, i>>
  /\ runs' = <<>>
  /\ reported' = ZeroUsage
  /\ reportedByEval' = Append(reportedByEval, reported)
  /\ totalUsage' = ZeroUsage
  /\ steps' = NoSteps
  /\ trace' = <<>>
  /\ workspaceDir' = NoDir
  /\ UNCHANGED <<sideVars, config, options, numEvals, onProgress, workspaces, partial, recorded,
                 agent, api, vitest, pending, thrown>>

Next ==
  \/ RunExperimentStart
  \/ CreateWorkspace
  \/ SDKPrepare
  \/ APITimeout
  \/ APIResolve
  \/ APIReject
  \/ RunEvalTestsStart
  \/ VitestClose
  \/ VitestError
  \/ AgentPrepare
  \/ Tick
  \/ AgentTimeout
  \/ AgentKillTimer
  \/ AgentClose
  \/ AgentError
  \/ AgentKillRejected
  \/ Finally
  \/ RunEvalReturn

Spec == Init /\ [][Next]_vars

\* What the event loop and the operating system are bound to do: file-system
\* calls return, armed timers fire, the clock advances, and a process that
\* was sent SIGKILL ends.  Nothing obliges the model host, the agent or
\* vitest to finish by themselves.
FairSpec ==
  /\ Spec
  /\ WF_vars(RunExperimentStart)
  /\ WF_vars(CreateWorkspace)
  /\ WF_vars(SDKPrepare)
  /\ WF_vars(APITimeout)
  /\ WF_vars(RunEvalTestsStart)
  /\ WF_vars(AgentPrepare)
  /\ WF_vars(Tick)
  /\ WF_vars(AgentTimeout)
  /\ WF_vars(AgentKillTimer)
  /\ WF_vars(agent.sigkill /\ AgentClose)
  /\ WF_vars(Finally)
  /\ WF_vars(RunEvalReturn)

\* ------------------------------------------------- workspace names and paths
\* Strings are sequences of characters.  Eval and configuration names.
Names == { <<"a">>, <<"b">>, <<"a", "-", "b">>, <<"b", "-", "a">> }

\* Trial indices go up to MaxIndex; Date.now() starts at FirstStamp and
\* advances at most MaxTicks times.
MaxIndex == 10
FirstStamp == 9
MaxTicks == 2

BaseDir == <<"e", "v", "a", "l", "s">>

DigitChars == <<"0", "1", "2", "3", "4", "5", "6", "7", "8", "9">>

\* Decimal rendering of a natural number in a template string.
RECURSIVE Digits(_)
Digits(n) ==
  IF n < 10 THEN <<DigitChars[n + 1]>>
  ELSE Digits(n \div 10) \o <<DigitChars[(n % 10) + 1]>>

\* A variant that leaves the trial index out of the id.
RunId_NoIndex(evalName, configName, idx, now) ==
  evalName \o <<"-">> \o configName \o <<"-", "r", "u", "n">> \o <<"-">> \o Digits(now)

\* `${evalDef.name}-${config.name}-run${i}-${Date.now()}`
RunId(evalName, configName, idx, now) ==
  evalName \o <<"-">> \o configName \o <<"-", "r", "u", "n">> \o Digits(idx)
    \o <<"-">> \o Digits(now)

\* join(baseDir, ".workspaces", runId)
WorkspacePath(baseDir, runId) ==
  baseDir \o <<"/", ".", "w", "o", "r", "k", "s", "p", "a", "c", "e", "s", "/">>
    \o runId

\* One call of runEval, reduced to the run ids and paths its loop builds.
NamingInit ==
  /\ RunParked
  /\ IdleExcept("naming")
  /\ naming \in [evalName : Names, configName : Names, runs : 0..MaxIndex,
                 i : {1}, now : {FirstStamp}, created : {<<>>}]

\* const runId = ...; const workspaceDir = await createWorkspace(...); i++
NamingCreateWorkspace ==
  /\ naming.i <= naming.runs
  /\ naming' = [naming EXCEPT
       !.created = Append(@, WorkspacePath(BaseDir,
                     RunId(naming.evalName, naming.configName, naming.i,
                           naming.now))),
       !.i = @ + 1]
  /\ UNCHANGED runVars
  /\ OnlyView("naming")

\* The millisecond clock advances between two trials.
NamingClockTick ==
  /\ naming.i <= naming.runs
  /\ naming.now < FirstStamp + MaxTicks
  /\ naming' = [naming EXCEPT !.now = @ + 1]
  /\ UNCHANGED runVars
  /\ OnlyView("naming")

NamingNext == NamingCreateWorkspace \/ NamingClockTick

NamingSpec == NamingInit /\ [][NamingNext]_vars

\* ----------------------------------------------------------- compareExperiments
\* The experiments that are compared run at most MaxCmpRuns trials on some
\* of the evals 1..MaxCmpEvals.
MaxCmpEvals == 2
MaxCmpRuns == 3

Abs(n) == IF n < 0 THEN -n ELSE n

\* The IEEE difference a - b of two pass rates, as a reduced fraction; NaN
\* when one of them is NaN.
Minus(a, b) ==
  IF Len(a) = 1 \/ Len(b) = 1 THEN <<"NaN">>
  ELSE LET n == a[1] * b[2] - b[1] * a[2]
           d == a[2] * b[2] IN
         <<n \div Gcd(Abs(n), d), d \div Gcd(Abs(n), d)>>

\* baselineByName.get(name): new Map(entries) keeps the last entry of a key.
BaselineByName(base, name) ==
  LET ks == {k \in 1..Len(base) : base[k].evalName = name} IN
    IF ks = {} THEN <<>>
    ELSE <<base[CHOOSE k \in ks : \A j \in ks : j <= k]>>

\* The loop over withSkill.evalResults.
RECURSIVE EvalComparisons(_, _)
EvalComparisons(base, with) ==
  IF with = <<>> THEN <<>>
  ELSE LET withSkillResult == with[1]
           baselineResult == BaselineByName(base, withSkillResult.evalName) IN
         (IF baselineResult = <<>> THEN <<>>
          ELSE << [evalName |-> withSkillResult.evalName,
                   baselinePassRate |-> baselineResult[1].passRate,
                   withSkillPassRate |-> withSkillResult.passRate,
                   improvement |-> Minus(withSkillResult.passRate,
                                         baselineResult[1].passRate),
                   baselineRuns |-> baselineResult[1].totalRuns,
                   withSkillRuns |-> withSkillResult.totalRuns] >>)
         \o EvalComparisons(base, Tail(with))

\* A variant that subtracts the with-skill rate from the baseline rate.
CompareExperiments_Swapped(baseline, withSkill) ==
  [evalComparisons |-> EvalComparisons(baseline.evalResults,
                                       withSkill.evalResults),
   overallImprovement |-> Minus(baseline.overallPassRate,
                                withSkill.overallPassRate)]

\* compareExperiments; the result's references to its two arguments are
\* left out.
CompareExperiments(baseline, withSkill) ==
  [evalComparisons |-> EvalComparisons(baseline.evalResults,
                                       withSkill.evalResults),
   overallImprovement |-> Minus(withSkill.overallPassRate,
                                baseline.overallPassRate)]

\* The trial list of an eval of which the first `passed` trials passed.
RunsOf(passed, total) ==
  [k \in 1..total |-> [runNumber |-> k, passed |-> k <= passed]]

\* The elements of a set of eval names in discovery order.
RECURSIVE InOrder(_)
InOrder(S) ==
  IF S = {} THEN <<>>
  ELSE LET m == CHOOSE x \in S : \A y \in S : x <= y IN
         <<m>> \o InOrder(S \ {m})

\* The ExperimentResults runExperiment returns for `total` trials per eval on
\* a non-empty selection of evals.
ExperimentResults ==
  { ExperimentResultOf(
      [k \in 1..Len(InOrder(S)) |->
         EvalResultOf(InOrder(S)[k],
                      RunsOf(passed[InOrder(S)[k]], total), total, ZeroUsage)]) :
      <<total, S, passed>> \in
        { t \in (0..MaxCmpRuns) \X (SUBSET (1..MaxCmpEvals))
                \X [1..MaxCmpEvals -> 0..MaxCmpRuns] :
            /\ t[2] # {}
            /\ \A e \in 1..MaxCmpEvals :
                 IF e \in t[2] THEN t[3][e] <= t[1] ELSE t[3][e] = 0 } }

\* Two experiments have returned; compareExperiments has not been called.
CompareInit ==
  /\ RunParked
  /\ IdleExcept("comparison")
  /\ comparison \in [baseline : ExperimentResults,
                     withSkill : ExperimentResults, result : {<<>>}]

\* const comparison = compareExperiments(baseline, withSkill)
CompareCall ==
  /\ comparison.result = <<>>
  /\ comparison' = [comparison EXCEPT
       !.result = <<CompareExperiments(comparison.baseline,
                                       comparison.withSkill)>>]
  /\ UNCHANGED runVars
  /\ OnlyView("comparison")

CompareNext == CompareCall

CompareSpec == CompareInit /\ [][CompareNext]_vars

\* ------------------------------------------------------------------ filterEvals
\* Eval names and patterns are strings, written as sequences of characters.
\* The names are those of sibling directories, so a list of evals holds no
\* name twice.
EvalDirNames ==
  {<<"a">>, <<"b">>, <<"a", "b">>, <<"a", ".">>, <<"a", ".", "b">>}

Patterns ==
  {<<"*">>, <<"a">>, <<"a", ".">>, <<"a", "*">>, <<"*", "b">>,
   <<"a", ".", "*">>, <<"a", ".", "b">>}

MaxDiscovered == 2
MaxPatterns == 2

\* pattern.includes("*")
IncludesStar(pattern) == \E k \in 1..Len(pattern) : pattern[k] = "*"

\* new RegExp("^" + pattern.replace(/\*/g, ".*") + "$").test(name): every
\* "*" of the pattern has become ".*", and the other characters are handed to
\* the regular expression as they are, so a "." of the pattern is the
\* expression's wildcard for one character.
RECURSIVE RegExpTest(_, _)
RegExpTest(pattern, name) ==
  IF pattern = <<>> THEN name = <<>>
  ELSE CASE Head(pattern) = "*" ->
              \E k \in 0..Len(name) :
                RegExpTest(Tail(pattern), SubSeq(name, k + 1, Len(name)))
         [] Head(pattern) = "." ->
              name # <<>> /\ RegExpTest(Tail(pattern), Tail(name))
         [] OTHER ->
              /\ name # <<>>
              /\ Head(name) = Head(pattern)
              /\ RegExpTest(Tail(pattern), Tail(name))

\* The callback of patterns.some(...).
PatternMatches(pattern, name) ==
  IF IncludesStar(pattern) THEN RegExpTest(pattern, name) ELSE name = pattern

\* filterEvals(evals, patterns)
FilterEvals(evals, patterns) ==
  IF \E k \in 1..Len(patterns) : patterns[k] = <<"*">>
    THEN evals
    ELSE LET Keep(name) ==
               \E k \in 1..Len(patterns) : PatternMatches(patterns[k], name)
         IN SelectSeq(evals, Keep)

\* The lists of evals discoverEvals can return: no name twice.
Discovered ==
  UNION { { e \in [1..n -> EvalDirNames] :
              \A x, y \in 1..n : x # y => e[x] # e[y] } : n \in 0..MaxDiscovered }

PatternLists == UNION { [1..n -> Patterns] : n \in 0..MaxPatterns }

\* discoverEvals has returned; filterEvals has not been called.
FilterInit ==
  /\ RunParked
  /\ IdleExcept("filtering")
  /\ filtering \in [evals : Discovered, patterns : PatternLists,
                    result : {<<>>}]

\* const evals = filterEvals(allEvals, config.evals)
FilterCall ==
  /\ filtering.result = <<>>
  /\ filtering' = [filtering EXCEPT
       !.result = <<FilterEvals(filtering.evals, filtering.patterns)>>]
  /\ UNCHANGED runVars
  /\ OnlyView("filtering")

FilterNext == FilterCall

FilterSpec == FilterInit /\ [][FilterNext]_vars

\* ---------------------------------------------------------- parseGeneratedFiles
\* A response is a sequence of lines, joined by "\n".  The lines are of the
\* kinds the two scans tell apart; <fence> stands for three backticks.
Fence == "<fence>"
FenceTs == "<fence>ts"
DocFence == " * <fence>"
IndentedFence == "  <fence>"
Marker == "// foo.ts"
Comment == "// note"
Code == "export const x = 1;"
Blank == ""

Lines ==
  {Fence, FenceTs, DocFence, IndentedFence, Marker, Comment, Code, Blank}

MaxLines == 5

Responses == UNION { [1..n -> Lines] : n \in 0..MaxLines }

\* A Map<string, string> without entries, and files.set(filename, content).
NoFiles == <<>>

FilesSet(files, filename, content) == (filename :> content) @@ files

\* The text of a file is the sequence of its lines; <<>> is the empty string.
\* String.prototype.trim on the lines joined by "\n": blank lines at both
\* ends go, and so does the white space that starts the first line left.
RECURSIVE TrimStartLines(_)
TrimStartLines(text) ==
  IF text # <<>> /\ Head(text) = Blank THEN TrimStartLines(Tail(text))
  ELSE text

RECURSIVE TrimEndLines(_)
TrimEndLines(text) ==
  IF text # <<>> /\ text[Len(text)] = Blank
    THEN TrimEndLines(SubSeq(text, 1, Len(text) - 1))
    ELSE text

TrimStart(line) ==
  CASE line = DocFence -> "* <fence>"
    [] line = IndentedFence -> Fence
    [] OTHER -> line

Trim(text) ==
  LET t == TrimEndLines(TrimStartLines(text))
  IN IF t = <<>> THEN <<>> ELSE <<TrimStart(t[1])>> \o Tail(t)

\* ```(?:typescript|ts|javascript|js)?\n matches in the line: the expression
\* is not anchored, so the three backticks may stand anywhere in the line,
\* and a line break has to follow.
OpensMatch(response, k) ==
  /\ k < Len(response)
  /\ response[k] \in {Fence, FenceTs, DocFence, IndentedFence}

\* (?:\/\/\s*([^\n]+)\n)? matches the line.
IsFilenameComment(line) == line \in {Marker, Comment}

\* What the group captures, without filename.trim(): the whole line.
CapturedFilename_WholeLine(line) == line

\* What the group ([^\n]+) captures, after filename.trim().replace(/^\//, "").
CapturedFilename(line) == IF line = Marker THEN "foo.ts" ELSE "note"

\* \n```(?=\s*\n|$) matches at the start of the line, read as any line that
\* ends in three backticks.
ClosesMatch_AnyFence(line) == line \in {Fence, DocFence, IndentedFence}

\* \n```(?=\s*\n|$) matches at the start of the line.
ClosesMatch(line) == line = Fence

\* The line at which the lazy ([\s\S]*?) ends when it starts at line s: the
\* first closing line after s, or 0.  The line break before the closing
\* backticks is not the one that ends the line before s, so line s itself
\* is never the closing line.
ClosingLine(response, s) ==
  LET later == { e \in (s + 1)..Len(response) : ClosesMatch(response[e]) }
  IN IF later = {} THEN 0
     ELSE CHOOSE e \in later : \A f \in later : e <= f

\* One attempt of the expression at line k: <<filename, s, e>> with the
\* content in lines s..e-1, or <<>>.  The optional group is tried first, and
\* given up when no closing line follows it.
MatchAt(response, k) ==
  LET withName == IF k + 1 < Len(response)
                     /\ IsFilenameComment(response[k + 1])
                    THEN ClosingLine(response, k + 2) ELSE 0
      without == ClosingLine(response, k + 1)
  IN IF ~OpensMatch(response, k) THEN <<>>
     ELSE IF withName # 0
       THEN <<<<CapturedFilename(response[k + 1])>>, k + 2, withName>>
     ELSE IF without # 0 THEN <<<<>>, k + 1, without>>
     ELSE <<>>

\* if (filename && content): content is the captured text, and "" is falsy.
Truthy(text) == text # <<Blank>>

\* while ((match = codeBlockRegex.exec(response)) !== null) { ... }
RECURSIVE PrimaryScan(_, _, _)
PrimaryScan(response, k, files) ==
  IF k > Len(response) THEN files
  ELSE LET m == MatchAt(response, k)
       IN IF m = <<>> THEN PrimaryScan(response, k + 1, files)
          ELSE LET content == SubSeq(response, m[2], m[3] - 1)
               IN PrimaryScan(response, m[3] + 1,
                    IF m[1] # <<>> /\ Truthy(content)
                      THEN FilesSet(files, m[1][1], Trim(content))
                      ELSE files)

\* extractCodeBlocksWithNestedBackticks: the tests of its loop on a line.
IsBlockStart(line) == line \in {Fence, FenceTs}

IsFilenameLine(line) == line = Marker

IsNestedMarker(line) == line \in {DocFence, IndentedFence}

IsBlockEnd(line) == line = Fence

NoBlock == [inCodeBlock |-> FALSE, filename |-> <<>>, content |-> <<>>,
            nestingDepth |-> 0]

\* for (let i = 0; i < lines.length; i++) { ... }
RECURSIVE FallbackScan(_, _, _, _)
FallbackScan(response, k, b, files) ==
  IF k > Len(response) THEN files
  ELSE LET line == response[k] IN
    IF ~b.inCodeBlock
      THEN FallbackScan(response, k + 1,
             IF IsBlockStart(line)
               THEN [NoBlock EXCEPT !.inCodeBlock = TRUE] ELSE b,
             files)
    ELSE IF b.content = <<>> /\ IsFilenameLine(line)
      THEN FallbackScan(response, k + 1,
             [b EXCEPT !.filename = <<CapturedFilename(line)>>], files)
    ELSE IF IsNestedMarker(line)
      THEN FallbackScan(response, k + 1,
             [b EXCEPT !.nestingDepth = IF @ > 0 THEN 0 ELSE 1,
                       !.content = Append(@, line)], files)
    ELSE IF IsBlockEnd(line) /\ b.nestingDepth = 0
      THEN FallbackScan(response, k + 1, NoBlock,
             IF b.filename # <<>> /\ Len(b.content) > 0
               THEN FilesSet(files, b.filename[1], Trim(b.content))
               ELSE files)
    ELSE FallbackScan(response, k + 1,
           [b EXCEPT !.content = Append(@, line)], files)

ExtractCodeBlocksWithNestedBackticks(response) ==
  FallbackScan(response, 1, NoBlock, NoFiles)

\* parseGeneratedFiles, with the entries of the second scan always set.
ParseGeneratedFiles_AlwaysFallback(response) ==
  ExtractCodeBlocksWithNestedBackticks(response)
    @@ PrimaryScan(response, 1, NoFiles)

\* parseGeneratedFiles(response)
ParseGeneratedFiles(response) ==
  LET files == PrimaryScan(response, 1, NoFiles)
  IN IF DOMAIN files = {}
       THEN ExtractCodeBlocksWithNestedBackticks(response)
       ELSE files

\* The model has answered; parseGeneratedFiles has not been called.
ExtractInit ==
  /\ RunParked
  /\ IdleExcept("extraction")
  /\ extraction \in [response : Responses, files : {<<>>}, parsed : {FALSE}]

\* const generatedFiles = parseGeneratedFiles(response)
ExtractCall ==
  /\ ~extraction.parsed
  /\ extraction' = [extraction EXCEPT
       !.files = ParseGeneratedFiles(extraction.response),
       !.parsed = TRUE]
  /\ UNCHANGED runVars
  /\ OnlyView("extraction")

ExtractNext == ExtractCall

ExtractSpec == ExtractInit /\ [][ExtractNext]_vars

\* A fence with a language hint outside (typescript|ts|javascript|js).  The
\* first expression does not open at it (after "ts" an "x" follows, not a
\* line break) nor close at it, and the tests of the second scan all fail
\* on it: to both scans it is a line like any other.
FenceTsx == "<fence>tsx"

\* The lines of at most n lines over the given kinds.
LinesUpTo(kinds, n) == UNION { [1..m -> kinds] : m \in 0..n }

MaxBody == 2

\* Responses that hold a tsx fence and, after it, one fence with a
\* recognized hint or none, a filename marker and content.
TsxResponses ==
  { <<FenceTsx>> \o body \o <<Fence>> \o between \o <<opener, Marker>>
      \o content \o <<Fence>> :
      body \in LinesUpTo({Code, Comment, Blank}, MaxBody),
      between \in LinesUpTo({Code, Blank}, 1),
      opener \in {Fence, FenceTs},
      content \in LinesUpTo({Code, Comment}, MaxBody) \ {<<>>} }

\* The model has answered with a tsx fence before the file's fence.
TsxExtractInit ==
  /\ RunParked
  /\ IdleExcept("extraction")
  /\ extraction \in [response : TsxResponses, files : {<<>>},
                      parsed : {FALSE}]

TsxExtractSpec == TsxExtractInit /\ [][ExtractNext]_vars

\* ------------------------------------------------- scripts/run-comparison.ts
\* One run of the command line: the arguments, the environment, the
\* experiment files and the evals on disk, and how far main has come.
\* Every experiment file selects all evals, as baseline.ts and with-skill.ts
\* do, and one that sets executionMode "agent" brings its agent settings.
MaxExperiments == 2

CliModes == {Undefined, "sdk", "agent"}

ExperimentFiles ==
  UNION { [1..n -> [executionMode : CliModes, evals : {<<<<"*">>>>}]] :
            n \in 1..MaxExperiments }

EvalsOnDisk == {<<>>, <<<<"a">>>>, <<<<"a">>, <<"b">>>>}

\* --experiment is absent, names the first experiment file, or names none.
ExperimentArgs == {Undefined, "first", "unknown"}

\* --evals is absent, or "--evals a".
EvalsArgs == {<<>>, <<<<"a">>>>}

\* parseArgs(): the switch has no case for "--evals", so the flag and its
\* value are passed over; EXECUTION_MODE is read when --mode gave no mode.
ParseArgs(argv, env) ==
  [dry |-> argv.dry,
   experiment |-> argv.experiment,
   mode |-> IF argv.mode # Undefined THEN argv.mode
            ELSE env.EXECUTION_MODE]

\* The test before process.exit(1) at the API key check, without !options.dry.
KeyRequired_IgnoresDry(opts, env) ==
  /\ opts.mode # "agent"
  /\ ~env.ANTHROPIC_API_KEY

\* if (!options.dry && !isAgentMode && !process.env['ANTHROPIC_API_KEY'])
KeyRequired(opts, env) ==
  /\ ~opts.dry
  /\ opts.mode # "agent"
  /\ ~env.ANTHROPIC_API_KEY

\* loadExperimentConfig(name, modeOverride), reduced to the mode and evals.
LoadExperimentConfig(file, modeOverride) ==
  IF modeOverride # Undefined
    THEN [file EXCEPT !.executionMode = modeOverride]
    ELSE file

\* const isAgentMode = config.executionMode === "agent" in runExperiment
ExecutesAsAgent(cfg) == cfg.executionMode = "agent"

CliInit ==
  /\ RunParked
  /\ IdleExcept("cli")
  /\ cli \in [argv : [dry : BOOLEAN, mode : CliModes,
                      experiment : ExperimentArgs, evals : EvalsArgs],
              env : [EXECUTION_MODE : CliModes, ANTHROPIC_API_KEY : BOOLEAN],
              files : ExperimentFiles,
              allEvals : EvalsOnDisk,
              pc : {"parseArgs"},
              options : {[dry |-> FALSE, experiment |-> Undefined,
                          mode |-> Undefined]},
              experimentsToRun : {<<>>},
              evals : {<<>>},
              printed : {<<>>},
              calls : {<<>>},
              exit : {Undefined}]

\* const options = parseArgs()
MainParseArgs ==
  /\ cli.pc = "parseArgs"
  /\ cli' = [cli EXCEPT !.options = ParseArgs(cli.argv, cli.env),
                        !.pc = "validate"]
  /\ UNCHANGED runVars
  /\ OnlyView("cli")

\* Unknown experiment: process.exit(1)
MainUnknownExperiment ==
  /\ cli.pc = "validate"
  /\ cli.options.experiment = "unknown"
  /\ cli' = [cli EXCEPT !.pc = "exited", !.exit = "unknown experiment"]
  /\ UNCHANGED runVars
  /\ OnlyView("cli")

\* ANTHROPIC_API_KEY is required: process.exit(1)
MainMissingKey ==
  /\ cli.pc = "validate"
  /\ cli.options.experiment # "unknown"
  /\ KeyRequired(cli.options, cli.env)
  /\ cli' = [cli EXCEPT !.pc = "exited", !.exit = "missing key"]
  /\ UNCHANGED runVars
  /\ OnlyView("cli")

\* experimentsToRun.push(await loadExperimentConfig(..., options.mode))
MainLoadConfigs ==
  /\ cli.pc = "validate"
  /\ cli.options.experiment # "unknown"
  /\ ~KeyRequired(cli.options, cli.env)
  /\ LET names == IF cli.options.experiment = "first"
                    THEN 1..1 ELSE 1..Len(cli.files)
     IN cli' = [cli EXCEPT
          !.experimentsToRun =
            [n \in names |->
               LoadExperimentConfig(cli.files[n], cli.options.mode)],
          !.pc = "discover"]
  /\ UNCHANGED runVars
  /\ OnlyView("cli")

\* const evals = filterEvals(allEvals, experimentsToRun[0]?.evals ?? ['*']);
\* if (evals.length === 0) process.exit(1)
MainDiscoverEvals ==
  /\ cli.pc = "discover"
  /\ LET evals == FilterEvals(cli.allEvals, cli.experimentsToRun[1].evals)
     IN cli' = IF evals = <<>>
                 THEN [cli EXCEPT !.pc = "exited", !.exit = "no evals"]
                 ELSE [cli EXCEPT !.evals = evals,
                                  !.pc = IF cli.options.dry THEN "dry"
                                         ELSE "run"]
  /\ UNCHANGED runVars
  /\ OnlyView("cli")

\* if (options.dry) { printDryRun(...); return; }
MainDryRun ==
  /\ cli.pc = "dry"
  /\ cli' = [cli EXCEPT
       !.printed = <<[experiments |-> cli.experimentsToRun,
                      evals |-> cli.evals]>>,
       !.pc = "returned"]
  /\ UNCHANGED runVars
  /\ OnlyView("cli")

\* const result = await runExperiment(config, EVALS_DIR, ROOT_DIR, ...): the
\* call is kept with the mode it runs in and the evals it runs, which
\* runExperiment selects with config.evals.
MainRunExperiment ==
  /\ cli.pc = "run"
  /\ Len(cli.calls) < Len(cli.experimentsToRun)
  /\ LET cfg == cli.experimentsToRun[Len(cli.calls) + 1]
     IN cli' = [cli EXCEPT
          !.calls = Append(@,
            [agent |-> ExecutesAsAgent(cfg),
             evals |-> FilterEvals(cli.allEvals, cfg.evals)])]
  /\ UNCHANGED runVars
  /\ OnlyView("cli")

\* The loop over experimentsToRun is over: main returns.
MainReturn ==
  /\ cli.pc = "run"
  /\ Len(cli.calls) = Len(cli.experimentsToRun)
  /\ cli' = [cli EXCEPT !.pc = "returned"]
  /\ UNCHANGED runVars
  /\ OnlyView("cli")

CliNext ==
  \/ MainParseArgs
  \/ MainUnknownExperiment
  \/ MainMissingKey
  \/ MainLoadConfigs
  \/ MainDiscoverEvals
  \/ MainDryRun
  \/ MainRunExperiment
  \/ MainReturn

CliSpec == CliInit /\ [][CliNext]_vars

\* ------------------------------------------- executeAgent: usage from stdout
\* What the agent process wrote to stdout: text that JSON.parse rejects, the
\* JSON value null, or a JSON object whose fields usage and stats are absent
\* or objects with some of the four token fields.
Absent == <<>>

TokenObjects ==
  [input_tokens : {Absent, <<1>>}, inputTokens : {Absent, <<2>>},
   output_tokens : {Absent, <<3>>}, outputTokens : {Absent, <<4>>}]

AgentStdouts ==
  {[kind |-> "text"], [kind |-> "null"]}
    \cup [kind : {"object"}, usage : {Absent} \cup TokenObjects,
          stats : {Absent} \cup TokenObjects]

\* a ?? b ?? 0
Coalesce(a, b) == IF a # Absent THEN a[1] ELSE IF b # Absent THEN b[1] ELSE 0

TokensOf(o) ==
  [inputTokens |-> Coalesce(o.input_tokens, o.inputTokens),
   outputTokens |-> Coalesce(o.output_tokens, o.outputTokens)]

\* The try block of the 'close' handler without its second if: stats is not
\* read.
ParseUsage_UsageOnly(stdout) ==
  IF stdout.kind # "object" THEN NoUsage
  ELSE IF stdout.usage # Absent THEN <<TokensOf(stdout.usage)>>
  ELSE NoUsage

\* The try block of the 'close' handler: JSON.parse throws on text, reading
\* a field of null throws, and the catch leaves usage undefined.
ParseUsage(stdout) ==
  IF stdout.kind # "object" THEN NoUsage
  ELSE IF stdout.usage # Absent THEN <<TokensOf(stdout.usage)>>
  ELSE IF stdout.stats # Absent THEN <<TokensOf(stdout.stats)>>
  ELSE NoUsage

\* The results the check step can hand back.
CheckResults ==
  {TestResultOnClose(0, [kind |-> "json", success |-> "true",
                         numPassedTests |-> 1, numTotalTests |-> 1], ""),
   TestResultOnClose(1, [kind |-> "json", success |-> "false",
                         numPassedTests |-> 0, numTotalTests |-> 1],
                     "vitest output")}

\* The RunResult runEval makes of an agent trial whose process has closed.
AgentRunResult(stdout, timedOut, code, nFiles, testResult) ==
  LET agentResult ==
        AgentPartialResult(
          1, CloseResult(timedOut, code, ParseUsage(stdout)), nFiles)
  IN IF nFiles > 0 THEN AgentTestedResult(agentResult, testResult)
     ELSE AgentUntestedResult(agentResult)

\* The agent process of one trial is about to close.
AgentOutputInit ==
  /\ RunParked
  /\ IdleExcept("agentOutput")
  /\ agentOutput \in [stdout : AgentStdouts, timedOut : BOOLEAN,
                      code : {0, 1, NullCode}, nFiles : 0..1,
                      testResult : CheckResults,
                      exec : {<<>>}, result : {<<>>}]

\* agent.on("close", (code) => { ... resolve({ ..., usage }) })
AgentOutputClose ==
  /\ agentOutput.exec = <<>>
  /\ agentOutput' = [agentOutput EXCEPT
       !.exec = <<CloseResult(agentOutput.timedOut, agentOutput.code,
                              ParseUsage(agentOutput.stdout))>>]
  /\ UNCHANGED runVars
  /\ OnlyView("agentOutput")

\* runAgentEval returns, runEvalTests has run if there are files, and runEval
\* has the RunResult.
AgentOutputRunResult ==
  /\ agentOutput.exec # <<>>
  /\ agentOutput.result = <<>>
  /\ agentOutput' = [agentOutput EXCEPT
       !.result = <<AgentRunResult(agentOutput.stdout, agentOutput.timedOut,
                                   agentOutput.code, agentOutput.nFiles,
                                   agentOutput.testResult)>>]
  /\ UNCHANGED runVars
  /\ OnlyView("agentOutput")

AgentOutputNext == AgentOutputClose \/ AgentOutputRunResult

AgentOutputSpec == AgentOutputInit /\ [][AgentOutputNext]_vars

\* ------------------------------------------- the files of a trial's workspace
\* The workspace of one trial, reduced to three paths and to who wrote what
\* is there: nothing, the eval's starter files, the model's extracted files,
\* the agent, the eval's EVAL.ts, the root vitest.config.ts; or the path is a
\* directory because a file was written below it.
Paths == {"EVAL.ts", "vitest.config.ts", "foo.ts"}

EmptyDir == [p \in Paths |-> "absent"]

\* copyStarterFiles: glob ignores the eval's PROMPT.md and EVAL.ts.
CopyStarterFiles(files, starter) ==
  [p \in Paths |-> IF p \in starter /\ p # "EVAL.ts" THEN "starter"
                   ELSE files[p]]

\* writeGeneratedFiles, or what the agent process does in its cwd: every
\* path of written is written, as a file or as a directory with a file in it.
Write(files, written, who) ==
  [p \in Paths |-> IF p \in DOMAIN written
                     THEN (IF written[p] = "file" THEN who ELSE "directory")
                     ELSE files[p]]

\* cp(src, dest) that leaves a file that is already there.
Cp_KeepExisting(files, dest, src) ==
  IF files[dest] = "absent" THEN [files EXCEPT ![dest] = src] ELSE files

\* cp(src, dest): the file at dest is replaced.
Cp(files, dest, src) == [files EXCEPT ![dest] = src]

\* cp of a file rejects when dest is a directory.
CpRejects(files, dest) == files[dest] = "directory"

\* What a writer can leave at the three paths.
Writings ==
  UNION { [ps -> {"file", "directory"}] : ps \in SUBSET Paths }

\* createWorkspace has returned.
WorkspaceInit ==
  /\ RunParked
  /\ IdleExcept("workspace")
  /\ workspace \in [executionMode : {"sdk", "agent"},
                    starter : SUBSET Paths,
                    written : Writings,
                    files : {EmptyDir},
                    pc : {"copyStarterFiles"},
                    executes : {<<>>}]

\* await copyStarterFiles(evalDef.path, workspaceDir)
WorkspaceCopyStarterFiles ==
  /\ workspace.pc = "copyStarterFiles"
  /\ workspace' = [workspace EXCEPT
       !.files = CopyStarterFiles(@, workspace.starter),
       !.pc = IF workspace.executionMode = "sdk" THEN "writeGeneratedFiles"
              ELSE "executeAgent"]
  /\ UNCHANGED runVars
  /\ OnlyView("workspace")

\* const writtenFiles = await writeGeneratedFiles(workspaceDir, generatedFiles);
\* if (writtenFiles.length === 0) return { passed: false, ... }
WorkspaceWriteGeneratedFiles ==
  /\ workspace.pc = "writeGeneratedFiles"
  /\ workspace' = [workspace EXCEPT
       !.files = Write(@, workspace.written, "model"),
       !.pc = IF DOMAIN workspace.written = {} THEN "returned"
              ELSE "runEvalTests"]
  /\ UNCHANGED runVars
  /\ OnlyView("workspace")

\* The agent process ran in the workspace and closed; getGeneratedFiles
\* lists what is there, and runEval runs the checks if the list is not empty.
WorkspaceExecuteAgent ==
  /\ workspace.pc = "executeAgent"
  /\ LET files == Write(workspace.files, workspace.written, "agent")
     IN workspace' = [workspace EXCEPT
          !.files = files,
          !.pc = IF \A p \in Paths : files[p] = "absent" THEN "returned"
                 ELSE "runEvalTests"]
  /\ UNCHANGED runVars
  /\ OnlyView("workspace")

\* Promise.all([cp(evalFile, workspaceEvalFile),
\*              cp(rootVitestConfig, workspaceVitestConfig)])
\* fulfils, or rejects with none, one or both of the files copied.
WorkspaceCopyEvalFiles ==
  /\ workspace.pc = "runEvalTests"
  /\ \E copied \in SUBSET {"EVAL.ts", "vitest.config.ts"} :
       /\ \A p \in copied : ~CpRejects(workspace.files, p)
       /\ LET one == IF "EVAL.ts" \in copied
                       THEN Cp(workspace.files, "EVAL.ts", "task")
                       ELSE workspace.files
              both == IF "vitest.config.ts" \in copied
                        THEN Cp(one, "vitest.config.ts", "root")
                        ELSE one
          IN workspace' = [workspace EXCEPT
               !.files = both,
               !.pc = IF copied = {"EVAL.ts", "vitest.config.ts"}
                        THEN "spawn" ELSE "returned"]
  /\ UNCHANGED runVars
  /\ OnlyView("workspace")

\* spawn("npx", ["vitest", "run", "EVAL.ts", ..., "--config",
\* "vitest.config.ts"], { cwd: workspaceDir })
WorkspaceSpawnVitest ==
  /\ workspace.pc = "spawn"
  /\ workspace' = [workspace EXCEPT
       !.executes = <<[evalFile |-> workspace.files["EVAL.ts"],
                       config |-> workspace.files["vitest.config.ts"]]>>,
       !.pc = "vitest"]
  /\ UNCHANGED runVars
  /\ OnlyView("workspace")

WorkspaceNext ==
  \/ WorkspaceCopyStarterFiles
  \/ WorkspaceWriteGeneratedFiles
  \/ WorkspaceExecuteAgent
  \/ WorkspaceCopyEvalFiles
  \/ WorkspaceSpawnVitest

WorkspaceSpec == WorkspaceInit /\ [][WorkspaceNext]_vars

\* ------------------------------------------ writeGeneratedFiles: file paths
\* A path is the sequence of its segments; a filename that starts with "/"
\* has an empty first segment, as from splitting at "/".  The workspace is
\* an absolute directory below the base directory.
WorkspaceDir == <<"base", ".workspaces", "run">>

\* What a filename marker can hold before its last segment, and the longest
\* filename considered.  The first scan captures the rest of the marker line
\* whatever it is; the names considered end in a name with an extension, as
\* the second scan requires.
DirSegments == {"..", ".", "sub", ""}

MaxSegments == 4

MarkerNames ==
  UNION { { ds \o <<"foo.ts">> : ds \in [1..n -> DirSegments] } :
          n \in 0..(MaxSegments - 1) }

\* parseGeneratedFiles: filename.trim().replace(/^\//, "").
CleanFilename(name) ==
  IF Len(name) > 1 /\ name[1] = "" THEN Tail(name) ELSE name

\* path.normalize on the segments of an absolute path: "" and "." vanish,
\* ".." removes the segment before it and stays at the root.
RECURSIVE Normalize(_, _)
Normalize(segments, done) ==
  IF segments = <<>> THEN done
  ELSE LET s == Head(segments)
       IN Normalize(Tail(segments),
                    IF s \in {"", "."} THEN done
                    ELSE IF s = ".."
                      THEN (IF done = <<>> THEN <<>>
                            ELSE SubSeq(done, 1, Len(done) - 1))
                      ELSE Append(done, s))

\* path.join(dir, name).
Join(dir, name) == Normalize(dir \o name, <<>>)

\* path.dirname of a normalized path.
Dirname(path) == SubSeq(path, 1, Len(path) - 1)

\* mkdir(dir, {recursive: true}): dir and the ancestors it lacks.
Mkdir(dirs, dir) == dirs \cup { SubSeq(dir, 1, n) : n \in 1..Len(dir) }

\* path lies below dir.
Inside(path, dir) ==
  Len(path) > Len(dir) /\ SubSeq(path, 1, Len(dir)) = dir

\* createWorkspace has made the workspace; the response holds one marker.
WritingInit ==
  /\ RunParked
  /\ IdleExcept("writing")
  /\ writing \in [marker : MarkerNames,
                  filename : {<<>>},
                  dirs : {Mkdir({}, WorkspaceDir)},
                  files : {{}},
                  pc : {"parseGeneratedFiles"}]

\* parseGeneratedFiles: the captured name becomes the key of the entry.
WritingParse ==
  /\ writing.pc = "parseGeneratedFiles"
  /\ writing' = [writing EXCEPT !.filename = CleanFilename(writing.marker),
                                !.pc = "writeGeneratedFiles"]
  /\ UNCHANGED runVars
  /\ OnlyView("writing")

\* writeGeneratedFiles: filePath = join(workspaceDir, filename);
\* mkdir(dirname(filePath), {recursive: true}); writeFile(filePath, content).
WriteGeneratedFiles ==
  /\ writing.pc = "writeGeneratedFiles"
  /\ LET filePath == Join(WorkspaceDir, writing.filename)
     IN writing' = [writing EXCEPT
          !.dirs = Mkdir(@, Dirname(filePath)),
          !.files = @ \cup {filePath},
          !.pc = "written"]
  /\ UNCHANGED runVars
  /\ OnlyView("writing")

WritingNext == WritingParse \/ WriteGeneratedFiles

WritingSpec == WritingInit /\ [][WritingNext]_vars

\* ------------------------------------------------------------------ claims
\* An iteration of runEval's loop is over: its workspace was requested and
\* the loop is back at its head, or runEval has rejected.
TrialOver == steps.mkdir = 1 /\ pc \in {"loop", "thrown"}

\* C1: every EvalResult returned by runEval has totalRuns = config.runs and
\* a trial list of exactly config.runs entries, whichever trials threw.
C1_TrialListLength ==
  \A k \in 1..Len(evalResults) :
    /\ evalResults[k].totalRuns = config.runs
    /\ Len(evalResults[k].runs) = config.runs

\* C2: in every EvalResult passedRuns is the number of entries of the trial
\* list with passed = true, passedRuns <= totalRuns, and passRate is exactly
\* the quotient passedRuns / totalRuns.
C2_PassedRunsAndRate ==
  \A k \in 1..Len(evalResults) :
    LET r == evalResults[k] IN
      /\ r.passedRuns = Cardinality({j \in 1..Len(r.runs) : r.runs[j].passed})
      /\ r.passedRuns <= r.totalRuns
      /\ r.passRate = Quot(r.passedRuns, r.totalRuns)

\* C2 witness: an eval of two trials, one passed, whose list also holds a
\* second entry for one trial; the rate is 1/2.
C2_Witness ==
  \E k \in 1..Len(evalResults) :
    /\ evalResults[k].totalRuns = 2
    /\ evalResults[k].passedRuns = 1
    /\ Len(evalResults[k].runs) = 3
    /\ evalResults[k].passRate = <<1, 2>>

RECURSIVE ProdTotals(_)
ProdTotals(s) == IF s = <<>> THEN 1 ELSE s[1].totalRuns * ProdTotals(Tail(s))

\* The arithmetic mean of the per-eval quotients passedRuns / totalRuns.
MeanOfRates(results) ==
  IF \E k \in 1..Len(results) : results[k].totalRuns = 0
    THEN <<"NaN">>
    ELSE Quot(SumOver([k \in 1..Len(results) |->
                        [v |-> results[k].passedRuns *
                               (ProdTotals(results) \div results[k].totalRuns)]],
                      "v"),
              Len(results) * ProdTotals(results))

\* C3 as stated: overallPassRate is the quotient of the two sums, and it
\* differs from the mean of the per-eval rates whenever two evals have
\* different trial counts.
C3_Original ==
  experimentResult # <<>> =>
    LET res == experimentResult[1].evalResults IN
      /\ experimentResult[1].overallPassRate =
           Quot(SumOver(res, "passedRuns"), SumOver(res, "totalRuns"))
      /\ (\E a, b \in 1..Len(res) : res[a].totalRuns # res[b].totalRuns)
           => experimentResult[1].overallPassRate # MeanOfRates(res)

\* C3 amended: overallPassRate is the quotient of the two sums when some
\* trial was configured and 0 when none was; all evals of one experiment
\* have totalRuns = config.runs, so for runs > 0 the value is also the mean
\* of the per-eval rates.
C3_OverallPassRate ==
  experimentResult # <<>> =>
    LET res == experimentResult[1].evalResults
        overall == experimentResult[1].overallPassRate IN
      /\ SumOver(res, "totalRuns") > 0 =>
           overall = Quot(SumOver(res, "passedRuns"), SumOver(res, "totalRuns"))
      /\ SumOver(res, "totalRuns") = 0 => overall = <<0, 1>>
      /\ \A k \in 1..Len(res) : res[k].totalRuns = config.runs
      /\ config.runs > 0 => overall = MeanOfRates(res)

\* C3 witness: two evals of one trial each, one passed: 1/2 overall.
C3_Witness ==
  /\ experimentResult # <<>>
  /\ Len(experimentResult[1].evalResults) = 2
  /\ experimentResult[1].evalResults[1].passedRuns = 1
  /\ experimentResult[1].evalResults[2].passedRuns = 0
  /\ experimentResult[1].overallPassRate = <<1, 2>>

SetupErrors ==
  { "Agent configuration is required when executionMode is 'agent'",
    "No evals found matching the specified patterns" }

\* C4: runExperiment rejects only with a setup error; an error raised while
\* a trial executes ends up in that trial's RunResult and the loop goes on.
C4_OnlySetupErrorsEscape ==
  pc = "thrown" => thrown \in SetupErrors

ValidTraces ==
  { <<"Created", "WorkspacePrepared", "StrategyExecuted", "ChecksRun", "Recorded">>,
    <<"Created", "WorkspacePrepared", "StrategyExecuted", "Recorded">>,
    <<"Created", "WorkspacePrepared", "Recorded">>,
    <<"Created", "Recorded">>,
    <<"Recorded">> }

\* C5: a finished trial went through Created, WorkspacePrepared,
\* StrategyExecuted, ChecksRun, Recorded in that order, a failing step
\* (workspace creation included) leading straight to Recorded, and it made
\* at most one model call, one agent spawn and one check run.
C5_TrialStateMachine ==
  TrialOver =>
    /\ trace \in ValidTraces
    /\ steps.api <= 1 /\ steps.agent <= 1 /\ steps.checks <= 1

\* C6 as stated: every trial creates exactly one workspace directory; with
\* debug off that directory is gone after the trial, with debug on it is
\* still there.
C6_Original ==
  TrialOver =>
    /\ steps.mkdir = 1 /\ trace # <<>> /\ trace[1] = "Created"
    /\ ~options.debug => workspaceDir \notin workspaces
    /\ options.debug => workspaceDir \in workspaces

\* C6 amended: every trial requests exactly one workspace directory; when
\* the request succeeded and debug is off, exactly one removal of that
\* directory is attempted after the trial is recorded (passed, failed or
\* thrown) and the directory is gone unless that removal failed; with debug
\* on nothing is removed.  When the request failed nothing is removed.
C6_WorkspaceLifecycle ==
  /\ options.debug => steps.rm = 0
  /\ TrialOver =>
       /\ steps.mkdir = 1
       /\ (trace # <<>> /\ options.debug) => workspaceDir \in workspaces
       /\ (trace # <<>> /\ ~options.debug) =>
            /\ trace[Len(trace)] = "Recorded"
            /\ steps.rm = 1
            /\ ~steps.rmFailed => workspaceDir \notin workspaces
       /\ trace = <<>> => steps.rm = 0

\* C6 witness: a trial that threw (its starter files could not be copied)
\* with debug off: its workspace was created and is removed again.
C6_Witness ==
  /\ TrialOver
  /\ ~options.debug
  /\ trace = <<"Created", "Recorded">>
  /\ steps.rm = 1
  /\ workspaceDir \notin workspaces

\* C7: while the agent process keeps running, SIGTERM has been sent once the
\* timeout is over and SIGKILL once the grace period after it is over.
C7_SigtermThenSigkill ==
  (pc = "agent_wait" /\ agent.proc = "running") =>
    /\ agent.elapsed > TimeoutSecs => agent.sigterm
    /\ agent.elapsed > TimeoutSecs + GraceSecs => agent.sigkill

\* C8: a trial whose agent was stopped by the timeout is recorded with
\* passed = false and an error, whatever the check suite reported.
C8_TimeoutIsFailure ==
  (IsAgentMode /\ agent.timedOut) =>
    \A k \in 1..Len(recorded) :
      ~recorded[k].passed /\ recorded[k].error # Undefined

\* C9: once the timeout elapsed with the model call outstanding, the trial
\* is recorded as failed with an error.
C9_SDKTimeoutFails ==
  api.timeoutId = "fired" =>
    \A k \in 1..Len(recorded) :
      ~recorded[k].passed /\ recorded[k].error # Undefined

\* C10: a trial that has started is eventually recorded.
C10_TrialEventuallyRecorded ==
  (pc \in {"sdk_prepare", "sdk_wait", "agent_prepare", "agent_wait",
           "check_copy", "check_wait"}) ~> (pc = "finally")

\* The trial's check run ended without a usable report.
NoUsableReport == vitest.proc = "closed" /\ vitest.kind \in {"none", "bad"}

\* C11: in direct-call mode, when the response yields no file, the trial is
\* recorded as failed with the error "No files were generated by the agent",
\* vitest is not started for it, and the result is the one runSDKEval
\* returns, not the one the catch block builds from an exception.
C11_NoFilesIsFailure ==
  (~IsAgentMode /\ api.call = "returned" /\ api.files = 0) =>
    /\ pc = "finally"
    /\ steps.checks = 0 /\ vitest.proc = "none"
    /\ trace[3] = "StrategyExecuted" /\ trace[4] = "Recorded"
    /\ ~recorded[1].passed
    /\ recorded[1].error = "No files were generated by the agent"
    /\ recorded[1].usage # NoUsage
    /\ thrown = Undefined

\* C11 witness: a direct-call trial whose response held no file has been
\* recorded and the progress callback returned.
C11_Witness ==
  /\ ~IsAgentMode /\ api.call = "returned" /\ api.files = 0
  /\ pc = "finally" /\ Len(recorded) = 1 /\ ~pending
  /\ recorded[1].testsPassed = 0 /\ recorded[1].testsTotal = 1

\* C12 as stated: without a usable report the check result follows the exit
\* code (0: passed, 1 of 1; otherwise failed, 0 of 1), and a parse error, a
\* spawn error or a copy failure yields a failed check result.
C12_Original ==
  (pc = "finally" /\ vitest.proc # "none") =>
    /\ NoUsableReport =>
         /\ recorded[1].passed = (vitest.code = 0)
         /\ recorded[1].testsPassed = (IF vitest.code = 0 THEN 1 ELSE 0)
         /\ recorded[1].testsTotal = 1
    /\ (vitest.kind = "bad" \/ vitest.proc \in {"failed", "copy_failed"}) =>
         ~recorded[1].passed

\* C12 amended: without a usable report (absent, or present but malformed)
\* the check result follows the exit code alone: 0 gives passed with 1 of 1,
\* any other code failed with 0 of 1.  A spawn error or a failure to copy
\* the assertion file gives failed with 0 of 1.  None of the three reaches
\* the catch block of runEval: the trial is recorded through the check step.
C12_ExitCodeFallback ==
  (pc = "finally" /\ vitest.proc # "none") =>
    /\ NoUsableReport =>
         /\ recorded[1].passed = (vitest.code = 0)
         /\ recorded[1].testsPassed = (IF vitest.code = 0 THEN 1 ELSE 0)
         /\ recorded[1].testsTotal = 1
    /\ vitest.proc \in {"failed", "copy_failed"} =>
         /\ ~recorded[1].passed
         /\ recorded[1].testsPassed = 0 /\ recorded[1].testsTotal = 1
         /\ recorded[1].error \in {"spawn npx ENOENT", "Failed to copy eval file"}
    /\ trace[4] = "ChecksRun"
    /\ recorded[1].error \notin {"write failed", "API error", "copy failed"}

\* C12 witness: vitest printed a malformed report and exited with 0; the
\* trial is recorded as passed with 1 of 1.
C12_Witness ==
  /\ pc = "finally" /\ vitest.proc = "closed" /\ vitest.kind = "bad"
  /\ vitest.code = 0
  /\ recorded[1].passed /\ recorded[1].testsTotal = 1

\* What executeAgent can resolve with when the agent ended by itself.
ExecResults ==
  { CloseResult(FALSE, code, usage) : code \in {0, 1}, usage \in OptUsageValues }

\* C13: the recorded passed flag, testsPassed and testsTotal are the same in
\* both modes for the same workspace files and the same check outcome: when
\* vitest ran they are its verdict, and when the strategy left no file they
\* are what the other strategy records for no file.
C13_SameVerdictInBothModes ==
  pc = "finally" =>
    /\ vitest.proc # "none" => Verdict(recorded[1]) = vitest.verdict
    /\ (~IsAgentMode /\ api.call = "returned" /\ api.files = 0) =>
         \A exec \in ExecResults :
           Verdict(recorded[1]) =
             Verdict(AgentUntestedResult(AgentPartialResult(i, exec, 0)))
    /\ (IsAgentMode /\ agent.proc # "none" /\ agent.listed /\ agent.files = 0) =>
         \A usage \in UsageValues :
           Verdict(recorded[1]) = Verdict(SDKNoFilesResult(i, usage))

\* The agent ended by itself with a nonzero exit code, no timeout, and the
\* workspace could be listed; the trial has been recorded.
NonzeroExit ==
  /\ IsAgentMode /\ pc = "finally"
  /\ agent.proc = "closed" /\ ~agent.timedOut /\ agent.code # 0
  /\ agent.listed

TrialInProgress ==
  pc \in {"sdk_prepare", "sdk_wait", "agent_prepare", "agent_wait",
          "check_copy", "check_wait", "finally"}

\* C15: trials run one at a time in increasing index order: while trial i
\* is in progress exactly the trials 1..i-1 have been recorded and nothing
\* of a later trial has happened, the k-th entry of every trial list has
\* trial index k, and the evals are run in discovery order.
C15_SequentialInIndexOrder ==
  /\ TrialInProgress =>
       /\ workspaceDir = <<evalIdx, i>>
       /\ steps.api + steps.agent <= 1
       /\ \A k \in 1..Len(runs) : runs[k].runNumber <= i
       /\ pc # "finally" => \A k \in 1..Len(runs) : runs[k].runNumber < i
  /\ \A k \in 1..Len(runs) : runs[k].runNumber = k
  /\ \A e \in 1..Len(evalResults) :
       /\ evalResults[e].evalName = e
       /\ \A k \in 1..Len(evalResults[e].runs) :
            evalResults[e].runs[k].runNumber = k

\* C16: the workspace paths of the trials of one eval under one
\* configuration are pairwise distinct, whatever the clock read when they
\* were created.
C16_DistinctWorkspacePaths ==
  \A a, b \in 1..Len(naming.created) :
    a # b => naming.created[a] # naming.created[b]

\* C16 witness: two workspaces were created and the clock has not advanced.
C16_Witness ==
  /\ Len(naming.created) >= 2
  /\ naming.now = FirstStamp

\* C17: whatever the recursive removal does, the finally step attempts it at
\* most once, leaves the trial list as it is, and hands control on exactly
\* as the try / catch left it: to the next iteration, or to the caller with
\* the callback's exception when one is pending.  (The one other step at
\* this point is the agent's grace timer firing, which leaves the run
\* where it is.)
C17_CleanupNeverRaises ==
  [][pc = "finally" =>
       /\ runs' = runs
       /\ steps'.rm <= 1
       /\ \/ pc' = pc /\ steps' = steps /\ i' = i /\ thrown' = thrown
                   /\ pending' = pending /\ workspaces' = workspaces
          \/ IF pending
               THEN pc' = "thrown" /\ thrown' = "callback error"
               ELSE pc' = "loop" /\ i' = i + 1 /\ thrown' = thrown]_vars

\* C17 witness: the removal of trial 1's workspace failed, the directory is
\* still there, and trial 2 has run and been recorded.
C17_Witness ==
  /\ ~options.debug
  /\ i = 2 /\ pc = "finally"
  /\ <<evalIdx, 1>> \in workspaces
  /\ Len(runs) >= 2

\* The configuration is in agent mode without agent settings, or the filter
\* left no eval.
BadSetup == (IsAgentMode /\ ~config.agent) \/ numEvals = 0

\* C18: with agent mode lacking agent settings, or with no eval left by the
\* filter, runExperiment never enters a trial: no workspace is created, no
\* model call is issued, no process is spawned, nothing is recorded, and
\* once it has moved it has thrown the matching setup error.
C18_FailFastOnSetupErrors ==
  BadSetup =>
    /\ pc \in {"start", "thrown"}
    /\ pc = "thrown" =>
         thrown = (IF IsAgentMode /\ ~config.agent
                     THEN "Agent configuration is required when executionMode is 'agent'"
                     ELSE "No evals found matching the specified patterns")
    /\ workspaces = {} /\ workspaceDir = NoDir
    /\ steps = NoSteps /\ trace = <<>>
    /\ agent = AgentIdle /\ api = ApiIdle /\ vitest = VitestIdle
    /\ runs = <<>> /\ evalResults = <<>> /\ experimentResult = <<>>

\* C18 witness: an agent-mode configuration without agent settings, with
\* evals to run, has been rejected.
C18_Witness ==
  /\ IsAgentMode /\ ~config.agent /\ numEvals > 0 /\ config.runs > 0
  /\ pc = "thrown"

\* The Usage of an optional aggregate, absent counting as zero.
UsageOrZero(opt) == IF opt = NoUsage THEN ZeroUsage ELSE opt[1]

\* C19: an eval's totalUsage is present exactly when the input or the output
\* tokens reported by its trials sum to a nonzero value, and then holds those
\* sums; the experiment's totalUsage is present exactly when the sums over
\* its evals' totalUsage are nonzero, and then holds them; a present
\* aggregate is never all-zero.
C19_TotalUsagePresence ==
  /\ \A e \in 1..Len(evalResults) :
       LET sum == reportedByEval[e]
           total == evalResults[e].totalUsage IN
         /\ (total # NoUsage) = (sum.inputTokens # 0 \/ sum.outputTokens # 0)
         /\ total # NoUsage => total[1] = sum /\ total[1] # ZeroUsage
  /\ experimentResult # <<>> =>
       LET res == experimentResult[1].evalResults
           total == experimentResult[1].totalUsage
           sum == [inputTokens |->
                     SumOver([k \in 1..Len(res) |-> UsageOrZero(res[k].totalUsage)],
                             "inputTokens"),
                   outputTokens |->
                     SumOver([k \in 1..Len(res) |-> UsageOrZero(res[k].totalUsage)],
                             "outputTokens")] IN
         /\ (total # NoUsage) = (sum.inputTokens # 0 \/ sum.outputTokens # 0)
         /\ total # NoUsage => total[1] = sum /\ total[1] # ZeroUsage

\* C19 witness: an experiment of two evals; the trials of the first reported
\* no tokens, those of the second did; the experiment's aggregate is the
\* second eval's.
C19_Witness ==
  /\ experimentResult # <<>>
  /\ Len(experimentResult[1].evalResults) = 2
  /\ experimentResult[1].evalResults[1].totalUsage = NoUsage
  /\ experimentResult[1].evalResults[2].totalUsage # NoUsage
  /\ experimentResult[1].totalUsage = experimentResult[1].evalResults[2].totalUsage

\* The eval names of an ExperimentResult.
EvalNames(result) ==
  { result.evalResults[k].evalName : k \in 1..Len(result.evalResults) }

\* The EvalResult of an eval name in an ExperimentResult.
EvalNamed(result, name) ==
  result.evalResults[CHOOSE k \in 1..Len(result.evalResults) :
                       result.evalResults[k].evalName = name]

\* diff is the rate `with` minus the rate `base`: diff + base = with on
\* fractions, and NaN exactly when one of the two is NaN.
IsDifference(diff, with, base) ==
  IF Len(with) = 1 \/ Len(base) = 1 THEN diff = <<"NaN">>
  ELSE /\ Len(diff) = 2
       /\ diff[1] * base[2] * with[2] =
            (with[1] * base[2] - base[1] * with[2]) * diff[2]

\* C20: compareExperiments yields exactly one entry for every eval name of
\* both results and none for any other; the entry holds the two trial
\* counts and improvement = with-skill pass rate minus baseline pass rate;
\* overallImprovement is withSkill.overallPassRate minus
\* baseline.overallPassRate.
C20_CompareExperiments ==
  comparison.result # <<>> =>
    LET b == comparison.baseline
        w == comparison.withSkill
        c == comparison.result[1].evalComparisons IN
      /\ \A name \in EvalNames(b) \cap EvalNames(w) :
           Cardinality({k \in 1..Len(c) : c[k].evalName = name}) = 1
      /\ \A k \in 1..Len(c) :
           /\ c[k].evalName \in EvalNames(b) \cap EvalNames(w)
           /\ c[k].baselineRuns = EvalNamed(b, c[k].evalName).totalRuns
           /\ c[k].withSkillRuns = EvalNamed(w, c[k].evalName).totalRuns
           /\ IsDifference(c[k].improvement,
                           EvalNamed(w, c[k].evalName).passRate,
                           EvalNamed(b, c[k].evalName).passRate)
      /\ IsDifference(comparison.result[1].overallImprovement,
                      w.overallPassRate, b.overallPassRate)

\* C20 witness: baseline 2/3 on eval 1, with-skill 3/3 on evals 1 and 2: one
\* entry, for eval 1, and an overall improvement of +1/3.
C20_Witness ==
  /\ comparison.result # <<>>
  /\ EvalNames(comparison.baseline) = {1}
  /\ EvalNames(comparison.withSkill) = {1, 2}
  /\ comparison.baseline.overallPassRate = <<2, 3>>
  /\ comparison.withSkill.overallPassRate = <<1, 1>>
  /\ Len(comparison.result[1].evalComparisons) = 1
  /\ comparison.result[1].evalComparisons[1].improvement = <<1, 3>>
  /\ comparison.result[1].overallImprovement = <<1, 3>>

\* The pattern language of the documentation: "*" stands for any substring,
\* every other character for itself.
RECURSIVE GlobMatches(_, _)
GlobMatches(pattern, name) ==
  IF pattern = <<>> THEN name = <<>>
  ELSE IF Head(pattern) = "*"
    THEN \E k \in 0..Len(name) :
           GlobMatches(Tail(pattern), SubSeq(name, k + 1, Len(name)))
    ELSE /\ name # <<>>
         /\ Head(name) = Head(pattern)
         /\ GlobMatches(Tail(pattern), Tail(name))

\* C21: filterEvals returns every discovered eval when the pattern list
\* holds "*"; otherwise it returns, in discovery order, exactly the evals
\* whose name equals a pattern or matches a pattern in which "*" stands for
\* any substring and every other character for itself.
C21_FilterEvalsIsGlob ==
  filtering.result # <<>> =>
    LET Named(name) ==
          \E k \in 1..Len(filtering.patterns) :
            \/ name = filtering.patterns[k]
            \/ GlobMatches(filtering.patterns[k], name)
    IN filtering.result[1] =
         IF \E k \in 1..Len(filtering.patterns) :
              filtering.patterns[k] = <<"*">>
           THEN filtering.evals
           ELSE SelectSeq(filtering.evals, Named)

\* The lines without three backticks.
Prose == {Marker, Comment, Code, Blank}

\* The response holds one fence: it opens at line k with an unindented
\* marker, bare or tagged ts, has the filename marker "// foo.ts" as its first
\* inner line and closes at the first unindented bare marker, line e; no
\* line outside it holds three backticks.
OneFenceWithMarker(response, k, e) ==
  /\ response[k] \in {Fence, FenceTs}
  /\ k + 1 < e
  /\ response[k + 1] = Marker
  /\ response[e] = Fence
  /\ \A j \in (k + 2)..(e - 1) : response[j] # Fence
  /\ \A j \in 1..Len(response) : j < k \/ j > e => response[j] \in Prose

\* The lines between the marker line and the closing fence.
FenceContent(response, k, e) == SubSeq(response, k + 2, e - 1)

FenceNames(response, filename) ==
  \E k \in 1..(Len(response) - 1) :
    /\ response[k] \in {Fence, FenceTs, DocFence, IndentedFence}
    /\ \/ response[k + 1] = Marker /\ filename = "foo.ts"
       \/ response[k + 1] = Comment /\ filename = "note"

\* C27: every entry of the result is named by the comment line that heads a
\* fenced block, so a block without filename marker produces none, and the
\* entries of the fallback scan are in the result only when the primary
\* scan produced none: otherwise the result is the primary scan's mapping.
C27_NoMarkerNoEntryAndFallbackOnlyWhenEmpty ==
  extraction.parsed =>
    LET primary == PrimaryScan(extraction.response, 1, NoFiles)
    IN /\ \A filename \in DOMAIN extraction.files :
            FenceNames(extraction.response, filename)
       /\ DOMAIN primary # {} => extraction.files = primary
       /\ DOMAIN primary = {} =>
            extraction.files =
              ExtractCodeBlocksWithNestedBackticks(extraction.response)

C27_Witness ==
  /\ extraction.parsed
  /\ extraction.response = <<Fence, Marker, Marker, Code, Fence>>
  /\ extraction.files = ("foo.ts" :> <<Marker, Code>>)
  /\ ExtractCodeBlocksWithNestedBackticks(extraction.response) =
       ("foo.ts" :> <<Code>>)

\* C24: with --dry, main prints the planned experiments and evals and returns
\* without a call of runExperiment, the only place where a model call, an
\* agent or check-runner process or a workspace is made, and it does not stop
\* for a missing ANTHROPIC_API_KEY.
C24_DryRunStartsNothing ==
  cli # CliIdle /\ cli.argv.dry =>
    /\ cli.calls = <<>>
    /\ cli.pc # "run"
    /\ cli.exit # "missing key"
    /\ cli.pc = "returned" =>
         cli.printed = <<[experiments |-> cli.experimentsToRun,
                          evals |-> cli.allEvals]>>
    /\ cli.pc = "exited" => cli.exit \in {"unknown experiment", "no evals"}

C24_Witness ==
  /\ cli # CliIdle
  /\ cli.argv.dry
  /\ ~cli.env.ANTHROPIC_API_KEY
  /\ cli.pc = "returned"
  /\ cli.printed # <<>>
  /\ cli.printed[1].evals = <<<<"a">>, <<"b">>>>
  /\ cli.calls = <<>>

\* C25: with "--evals a" on the command line, every experiment of the run
\* executes only evals that the flag names.
C25_EvalsFlagRestrictsRun ==
  cli # CliIdle /\ cli.argv.evals # <<>> =>
    \A c \in 1..Len(cli.calls) :
      \A e \in 1..Len(cli.calls[c].evals) :
        \E n \in 1..Len(cli.argv.evals) :
          cli.calls[c].evals[e] = cli.argv.evals[n]

\* The experiment files main is asked to run, and whether runExperiment runs
\* file n in agent mode: the mode of --mode, else of EXECUTION_MODE, else the
\* file's own executionMode.
Requested ==
  IF cli.argv.experiment = "first" THEN {1} ELSE 1..Len(cli.files)

WillRunAsAgent(n) ==
  IF cli.argv.mode # Undefined THEN cli.argv.mode = "agent"
  ELSE IF cli.env.EXECUTION_MODE # Undefined
    THEN cli.env.EXECUTION_MODE = "agent"
  ELSE cli.files[n].executionMode = "agent"

\* C26: in a run without --dry and without ANTHROPIC_API_KEY, main exits
\* before any call of runExperiment when some requested experiment will run
\* in SDK mode, and does not stop for the missing key when all of them will
\* run in agent mode, wherever that mode comes from.
C26_KeyRequiredExactlyForSDK ==
  /\ cli # CliIdle
  /\ ~cli.argv.dry
  /\ ~cli.env.ANTHROPIC_API_KEY
  /\ cli.argv.experiment # "unknown"
  => /\ (\E n \in Requested : ~WillRunAsAgent(n)) =>
          cli.calls = <<>> /\ cli.pc # "returned"
     /\ (\A n \in Requested : WillRunAsAgent(n)) => cli.exit # "missing key"

\* The first of the two token fields that is there, else 0.
FirstOf(snake, camel) ==
  IF snake # Absent THEN snake[1] ELSE IF camel # Absent THEN camel[1] ELSE 0

\* The output is JSON with a usage or a stats object.
HasUsageObject(stdout) ==
  stdout.kind = "object" /\ (stdout.usage # Absent \/ stdout.stats # Absent)

\* C28: the usage of an agent trial is read from the usage object of the
\* JSON output, or else from its stats object, under the snake_case or the
\* camelCase field names; when the output is not JSON or has neither object,
\* usage is unset, and the error and the outcome of the trial are the same as
\* for any other output.
C28_UsageFromAgentOutput ==
  agentOutput # AgentOutputIdle /\ agentOutput.result # <<>> =>
    LET out == agentOutput.stdout
        res == agentOutput.result[1]
        from == IF out.usage # Absent THEN out.usage ELSE out.stats
    IN /\ HasUsageObject(out) =>
            res.usage =
              <<[inputTokens |-> FirstOf(from.input_tokens, from.inputTokens),
                 outputTokens |->
                   FirstOf(from.output_tokens, from.outputTokens)]>>
       /\ ~HasUsageObject(out) => res.usage = NoUsage
       /\ agentOutput.exec[1].usage = res.usage
       /\ \A other \in AgentStdouts :
            LET alt == AgentRunResult(other, agentOutput.timedOut,
                         agentOutput.code, agentOutput.nFiles,
                         agentOutput.testResult)
            IN /\ alt.passed = res.passed
               /\ alt.error = res.error
               /\ alt.testsPassed = res.testsPassed
               /\ alt.testsTotal = res.testsTotal

C28_Witness ==
  /\ agentOutput # AgentOutputIdle
  /\ agentOutput.result # <<>>
  /\ agentOutput.stdout = [kind |-> "text"]
  /\ agentOutput.code = 0
  /\ ~agentOutput.timedOut
  /\ agentOutput.nFiles = 1
  /\ agentOutput.result[1].passed
  /\ agentOutput.result[1].error = Undefined
  /\ agentOutput.result[1].usage = NoUsage

\* C29: when the check runner process starts, EVAL.ts in the workspace is the
\* eval's assertion file and vitest.config.ts is the root configuration,
\* whatever the starter copy, the model's files or the agent left at these
\* two paths.
C29_RunnerExecutesFixedAssertions ==
  workspace # WorkspaceIdle /\ workspace.executes # <<>> =>
    /\ workspace.executes[1] = [evalFile |-> "task", config |-> "root"]
    /\ workspace.files["EVAL.ts"] = "task"
    /\ workspace.files["vitest.config.ts"] = "root"

C29_Witness ==
  /\ workspace # WorkspaceIdle
  /\ workspace.executionMode = "sdk"
  /\ "vitest.config.ts" \in workspace.starter
  /\ DOMAIN workspace.written = {"EVAL.ts", "vitest.config.ts"}
  /\ \A p \in DOMAIN workspace.written : workspace.written[p] = "file"
  /\ workspace.executes = <<[evalFile |-> "task", config |-> "root"]>>

\* C30: in every recorded RunResult the error field agrees with the outcome:
\* a result with passed = true has no error text, and a result with
\* passed = false has one, in both execution modes.
C30_ErrorConsistentWithOutcome ==
  \A k \in 1..Len(recorded) :
    /\ recorded[k].passed => recorded[k].error = Undefined
    /\ ~recorded[k].passed => recorded[k].error # Undefined

\* C31: every trial index 1..runs is recorded once in the eval's trial list
\* and handed once to the progress callback, also when the callback throws:
\* a trial that is over has pushed one RunResult, and a returned trial list
\* holds every index once.
C31_EachTrialRecordedOnce ==
  /\ pc = "finally" => Len(recorded) = 1
  /\ \A e \in 1..Len(evalResults) :
       \A n \in 1..config.runs :
         Cardinality({k \in 1..Len(evalResults[e].runs) :
                        evalResults[e].runs[k].runNumber = n}) = 1
\* C32: when a trial's workspace is torn down no agent process and no
\* check-runner process of that trial is still running: the trial outcome is
\* resolved only after the subprocess has ended, on the 'error' path too.
C32_NoProcessAtTeardown ==
  pc = "finally" => (agent.proc # "running" /\ vitest.proc # "running")
\* C33: no termination signal is sent to an agent process after its close
\* event, and a trial counts as timed out only if the timeout timer fired
\* before close: a process that closes before the timeout has its timer
\* cancelled and gets no signal, and a process that closes within the grace
\* period after SIGTERM gets no SIGKILL.
C33_NoSignalAfterClose ==
  /\ [](/\ agent.timedOut => agent.timeoutId = "fired"
        /\ (agent.proc = "closed" /\ ~agent.timedOut) =>
             (agent.timeoutId = "cleared" /\ ~agent.sigterm /\ ~agent.sigkill))
  /\ [][(agent.proc = "closed" /\ agent'.proc = "closed") =>
          (agent'.sigterm = agent.sigterm /\ agent'.sigkill = agent.sigkill
           /\ agent'.timedOut = agent.timedOut)]_vars

\* The agent closed within the grace period after SIGTERM; the 5 s timer is
\* still pending while the checks run.
C33_Witness ==
  /\ pc = "check_wait"
  /\ agent.proc = "closed"
  /\ agent.sigterm
  /\ agent.killTimer = "armed"
\* C34: every file written from extracted model output lies inside the
\* trial's workspace directory, whatever filename the marker holds, names
\* with ".." segments or a leading "/" included.
C34_WrittenFilesInsideWorkspace ==
  (writing # WritingIdle /\ writing.pc = "written") =>
    \A f \in writing.files : Inside(f, WorkspaceDir)
\* The well-formed fences of a response: <<k, e>> with an opening fence of
\* a recognized hint or none at line k, the filename marker at k + 1,
\* content without fences in lines k + 2 .. e - 1 and the closing fence at e.
WellFormedFences(response) ==
  { ke \in (1..Len(response)) \X (1..Len(response)) :
      /\ ke[1] + 2 < ke[2]
      /\ response[ke[1]] \in {Fence, FenceTs}
      /\ response[ke[1] + 1] = Marker
      /\ response[ke[2]] = Fence
      /\ \A n \in (ke[1] + 2)..(ke[2] - 1) : response[n] \in {Code, Comment} }

\* C35: a fence with a language hint outside the recognized set, such as
\* tsx, does not disturb the other fences of the response: a well-formed
\* fence with a recognized hint or none and a filename marker is extracted
\* with its own content.
C35_TsxFenceLeavesOthersAlone ==
  (extraction # ExtractionIdle /\ extraction.parsed
   /\ \E n \in 1..Len(extraction.response) :
        extraction.response[n] = FenceTsx) =>
    \A ke \in WellFormedFences(extraction.response) :
      /\ "foo.ts" \in DOMAIN extraction.files
      /\ extraction.files["foo.ts"] =
           Trim(SubSeq(extraction.response, ke[1] + 2, ke[2] - 1))
\* C36: in agent-session mode the check suite is skipped, and the trial is
\* reported as without generated files, exactly when the agent produced no
\* file: the starter files copied into the workspace before the agent ran
\* do not count as generated.
C36_SkippedIffAgentWroteNothing ==
  [][(workspace.pc = "executeAgent") =>
       (workspace'.pc = "returned" <=> DOMAIN workspace.written = {})]_vars
\* A quotient that is a number between 0 and 1.
InUnitInterval(q) ==
  /\ Len(q) = 2
  /\ 0 <= q[1]
  /\ q[1] <= q[2]

\* C37: for every configured trial count, 0 included, the passRate of every
\* returned eval is a well-defined number in [0, 1], its average duration
\* is one too (the sum of the durations is divided by the length of the
\* trial list, which must not be 0), and the experiment's overallPassRate
\* lies in [0, 1].
C37_RatesAreNumbersInUnitInterval ==
  /\ \A e \in 1..Len(evalResults) : InUnitInterval(evalResults[e].passRate)
  /\ \A e \in 1..Len(evalResults) : Len(evalResults[e].runs) > 0
  /\ experimentResult # <<>> =>
       InUnitInterval(experimentResult[1].overallPassRate)
\* C38: at a given timestamp the workspace directory name is an injective
\* encoding of (eval name, configuration name, trial index): a trial that
\* differs in any of the three from the one whose workspace is created gets
\* a different path at the same millisecond, names with "-" included.
C38_RunIdInjective ==
  [][Len(naming'.created) > Len(naming.created) =>
       \A evalName \in Names, configName \in Names, idx \in 1..MaxIndex :
         <<evalName, configName, idx>>
             # <<naming.evalName, naming.configName, naming.i>>
           => WorkspacePath(BaseDir,
                RunId(evalName, configName, idx, naming.now))
                # naming'.created[Len(naming'.created)]]_vars

====
